---- MODULE Spec2Model ----
(***************************************************************************)
(* SNMP switch manager: the acquisition, caching and derivation engine of  *)
(* custom_components/snmp_switch_manager/snmp.py.                          *)
(*                                                                         *)
(* The module holds three state machines over one set of variables:        *)
(*   SpecGetMany  _do_get_many, one step per GET request                   *)
(*   SpecWalk     _do_next_walk, one step per GET-NEXT request             *)
(*   Spec         a SwitchSnmpClient session: initialize, poll, set_alias, *)
(*                set_admin_status                                         *)
(***************************************************************************)
EXTENDS Integers, Sequences, FiniteSets, TLC

VARIABLES
    \* ---- _do_get_many ----
    gm_pc,      \* "idle" | "run" | "done"
    gm_oids,    \* the oids argument (a sequence of OIDs)
    gm_dev,     \* device: OID -> text of the value it answers
    gm_bad,     \* device: the OIDs that make a request containing them fail
    gm_flaky,   \* device: any request may fail (transient errors)
    gm_stack,   \* pending _fetch_chunk calls, next one first
    gm_out,     \* the out dict
    gm_reqs,    \* the GET requests sent so far, in order
    \* ---- _do_next_walk ----
    w_pc,       \* "idle" | "run" | "done"
    w_dev,      \* device: requested OID -> response
    w_current,  \* current_oid
    w_seen,     \* seen
    w_yielded,  \* the (oid) pairs yielded so far, in order
    w_reqs,     \* number of GET-NEXT requests sent
    \* ---- SwitchSnmpClient session ----
    phase,      \* "new" | "ready" | "failed": async_initialize not yet called, returned, raised
    opts,       \* the option dicts given to __init__
    clock,      \* time.monotonic() of the host
    cl,         \* the client object: cache and the private bandwidth/PoE/env fields
    ret,        \* how the last call on the client ended
    \* ---- module-level functions ----
    fn,         \* a call of a pure function: its arguments, then also its result
    \* ---- coroutines of one session on the event loop ----
    tasks,      \* async_poll and a mutation: where each is suspended, and its locals
    agent       \* the SNMP agent of the device: ifAdminStatus and ifAlias per interface

gmVars == <<gm_pc, gm_oids, gm_dev, gm_bad, gm_flaky, gm_stack, gm_out, gm_reqs>>
wVars == <<w_pc, w_dev, w_current, w_seen, w_yielded, w_reqs>>
clVars == <<phase, opts, clock, cl, ret>>
fnVars == <<fn>>
loopVars == <<tasks, agent>>
vars == <<gmVars, wVars, clVars, fnVars, loopVars>>

\* Python's None
None == [k |-> "none"]
\* a str value
Text(s) == [k |-> "text", s |-> s]

SetMax(S) == CHOOSE x \in S : \A y \in S : x >= y
Max(a, b) == IF a >= b THEN a ELSE b
Min(a, b) == IF a <= b THEN a ELSE b
Range(f) == {f[i] : i \in DOMAIN f}

(***************************************************************************)
(* _do_get_many                                                            *)
(***************************************************************************)

\* bounds
MaxOids == 22
SmallOids == 4

CHUNK == 20

\* texts a device answers with; the last three are what pysnmp prints for
\* noSuchObject, noSuchInstance and endOfMibView
NoSuchObjectText == "No Such Object currently exists at this OID"
NoSuchInstanceText == "No Such Instance currently exists at this OID"
EndOfMibViewText == "No more variables left in this MIB View"
DevTexts == <<"17", "", NoSuchInstanceText, "eth0">>

\* "no such" in s_low or "nosuch" in s_low or "endofmib" in s_low
HasNoSuchOrEndOfMib(s) ==
    s \in {NoSuchObjectText, NoSuchInstanceText, "noSuchObject", "noSuchInstance", "endOfMibView"}

\* the value stored for one varbind of a successful response
ChunkValue(s) ==
    IF s = "" THEN None
    ELSE IF HasNoSuchOrEndOfMib(s) THEN None
    ELSE Text(s)

\* mid = max(1, len(chunk) // 2)
FetchMidWhole(chunk) == Len(chunk)
FetchMid(chunk) == Max(1, Len(chunk) \div 2)

\* the two recursive calls after a failed request of more than one OID
FetchSplitFirstOnly(chunk) == <<SubSeq(chunk, 1, FetchMid(chunk))>>
FetchSplit(chunk) ==
    <<SubSeq(chunk, 1, FetchMid(chunk)),
      SubSeq(chunk, FetchMid(chunk) + 1, Len(chunk))>>

\* for i in range(0, len(oids), CHUNK): oids[i : i + CHUNK]
TopChunks(oids) ==
    [j \in 1..((Len(oids) + CHUNK - 1) \div CHUNK) |->
        SubSeq(oids, (j - 1) * CHUNK + 1, Min(j * CHUNK, Len(oids)))]

\* the device sets of failing OIDs tried for a request list of n OIDs
BadSets(n) ==
    {{}} \cup {{p} : p \in 1..n} \cup {1..n}
    \cup (IF n <= SmallOids THEN SUBSET (1..n) ELSE {})

InitGetMany ==
    /\ gm_pc = "idle"
    /\ gm_oids = <<>>
    /\ gm_dev = <<>>
    /\ gm_bad = {}
    /\ gm_flaky = FALSE
    /\ gm_stack = <<>>
    /\ gm_out = <<>>
    /\ gm_reqs = <<>>

\* _do_get_many up to its first request
GetManyCall ==
    /\ gm_pc = "idle"
    /\ \E n \in 0..MaxOids, shift \in 0..(Len(DevTexts) - 1) :
        /\ gm_oids' = [i \in 1..n |-> i]
        /\ gm_dev' = [o \in 1..n |-> DevTexts[((o + shift) % Len(DevTexts)) + 1]]
        /\ \E bad \in BadSets(n) : gm_bad' = bad
        /\ gm_flaky' \in (IF n <= SmallOids THEN BOOLEAN ELSE {FALSE})
        /\ gm_out' = [o \in 1..n |-> None]
        /\ gm_stack' = TopChunks(gm_oids')
        /\ gm_pc' = IF n = 0 THEN "done" ELSE "run"
    /\ gm_reqs' = <<>>
    /\ UNCHANGED <<loopVars, wVars, clVars, fnVars>>

\* one _fetch_chunk call: the request and what follows it up to the next request
FetchChunk ==
    /\ gm_pc = "run"
    /\ gm_stack # <<>>
    /\ LET chunk == Head(gm_stack)
           rest == Tail(gm_stack)
       IN
        IF chunk = <<>>
        THEN /\ gm_stack' = rest
             /\ gm_pc' = IF rest = <<>> THEN "done" ELSE "run"
             /\ UNCHANGED <<gm_out, gm_reqs>>
        ELSE
          \E failed \in (IF Range(chunk) \cap gm_bad # {} THEN {TRUE}
                         ELSE IF gm_flaky THEN BOOLEAN ELSE {FALSE}) :
            /\ gm_reqs' = Append(gm_reqs, chunk)
            /\ IF failed
               THEN /\ gm_stack' = (IF Len(chunk) = 1 THEN <<>> ELSE FetchSplit(chunk)) \o rest
                    /\ gm_out' = gm_out
               ELSE /\ gm_stack' = rest
                    /\ gm_out' = [o \in DOMAIN gm_out |->
                                    IF o \in Range(chunk) THEN ChunkValue(gm_dev[o]) ELSE gm_out[o]]
            /\ gm_pc' = IF gm_stack' = <<>> THEN "done" ELSE "run"
    /\ UNCHANGED <<gm_oids, gm_dev, gm_bad, gm_flaky>>
    /\ UNCHANGED <<loopVars, wVars, clVars, fnVars>>

NextGetMany == GetManyCall \/ FetchChunk

\* the value a request that succeeds stores for the text s of DevTexts
StoredFor(s) == IF s \in {"", NoSuchInstanceText} THEN None ELSE Text(s)

\* C4: get_many over N OIDs of which exactly one makes every request that
\* contains it fail: when get_many returns, every other OID holds the value the
\* device answers for it and the failing OID holds None, for every N and every
\* position of the failing OID.
BisectionKeepsOthers ==
    (gm_pc = "done" /\ Cardinality(gm_bad) = 1 /\ ~gm_flaky) =>
        \A o \in DOMAIN gm_out :
            gm_out[o] = IF o \in gm_bad THEN None ELSE StoredFor(gm_dev[o])

\* C4 witness: a list longer than one chunk, the failing OID has a value on the
\* device and is None in the result, its neighbours are populated
BisectionKeepsOthersWitness ==
    /\ gm_pc = "done" /\ Cardinality(gm_bad) = 1 /\ ~gm_flaky
    /\ Len(gm_oids) > CHUNK
    /\ \E b \in gm_bad :
        /\ b > 1 /\ b < Len(gm_oids)
        /\ gm_dev[b] = "17" /\ gm_out[b] = None
        /\ gm_out[b - 1] = Text("eth0")
        /\ \E o \in (b + 1)..Len(gm_oids) : gm_out[o] = Text("17")
    /\ Len(gm_reqs) > 3

\* C5 (state part): no chunk is requested twice, the number of requests is at
\* most 2N - 1, no pending chunk is empty and an OID whose requests fail stays
\* unset
GetManyBounded ==
    /\ Len(gm_reqs) <= Max(0, 2 * Len(gm_oids) - 1)
    /\ \A i, j \in DOMAIN gm_reqs : i # j => gm_reqs[i] # gm_reqs[j]
    /\ \A i \in DOMAIN gm_stack : gm_stack[i] # <<>>
    /\ \A o \in gm_bad : gm_out[o] = None

\* C5 (step part): a request that is followed by more pending chunks than
\* before was a failing request of more than one OID: it is replaced by two
\* non-empty strictly smaller chunks that make up the failed chunk
GetManySplitShrinks ==
    (Len(gm_reqs') = Len(gm_reqs) + 1 /\ Len(gm_stack') > Len(gm_stack)) =>
        LET c == Head(gm_stack) IN
        /\ Len(gm_stack') = Len(gm_stack) + 1
        /\ gm_stack'[1] # <<>> /\ gm_stack'[2] # <<>>
        /\ Len(gm_stack'[1]) < Len(c) /\ Len(gm_stack'[2]) < Len(c)
        /\ gm_stack'[1] \o gm_stack'[2] = c

\* C5: get_many always terminates, even when every request fails: a failing
\* chunk of more than one OID is split into two strictly smaller non-empty
\* chunks, a failing chunk of one OID is requested once, left unset and never
\* requested again, and a running get_many reaches its return.
GetManyTerminates ==
    /\ []GetManyBounded
    /\ [][GetManySplitShrinks]_vars
    /\ (gm_pc = "run" ~> gm_pc = "done")

\* C5 witness: every request failed, down to every single OID, and get_many returned
GetManyTerminatesWitness ==
    /\ gm_pc = "done"
    /\ Len(gm_oids) > CHUNK
    /\ gm_bad = Range(gm_oids)
    /\ Len(gm_reqs) = 2 * Len(gm_oids) - Len(TopChunks(gm_oids))
    /\ \A o \in DOMAIN gm_out : gm_out[o] = None

(***************************************************************************)
(* _do_next_walk                                                           *)
(***************************************************************************)

\* bound: the OIDs under base_oid are base_oid.1 .. base_oid.WalkOids
WalkOids == 3

\* OIDs of the walk: 0 is base_oid itself, 1..WalkOids lie under it,
\* WalkOids + 1 lies outside the subtree
BaseOid == 0
OutsideOid == WalkOids + 1

OidResp(o) == [k |-> "oid", oid |-> o]
ErrorResp == [k |-> "error"]
EmptyResp == [k |-> "empty"]
WalkResponses == {OidResp(o) : o \in 0..OutsideOid} \cup {ErrorResp, EmptyResp}

\* oid_str == base_oid or oid_str.startswith(base_oid + ".")
InSubtree(o) == o \in BaseOid..WalkOids

\* oid_str in seen
SeenBeforeNever(o, seen) == FALSE
SeenBefore(o, seen) == o \in seen

InitWalk ==
    /\ w_pc = "idle"
    /\ w_dev = <<>>
    /\ w_current = BaseOid
    /\ w_seen = {}
    /\ w_yielded = <<>>
    /\ w_reqs = 0

\* _do_next_walk up to its first request
WalkCall ==
    /\ w_pc = "idle"
    /\ w_dev' \in [0..WalkOids -> WalkResponses]
    /\ w_pc' = "run"
    /\ w_current' = BaseOid
    /\ w_seen' = {}
    /\ w_yielded' = <<>>
    /\ w_reqs' = 0
    /\ UNCHANGED <<loopVars, gmVars, clVars, fnVars>>

\* one iteration of the while loop: a GET-NEXT of current_oid and its one varbind
WalkNext ==
    /\ w_pc = "run"
    /\ w_reqs' = w_reqs + 1
    /\ LET resp == w_dev[w_current] IN
        IF resp.k # "oid"
        THEN /\ w_pc' = "done"
             /\ UNCHANGED <<w_current, w_seen, w_yielded>>
        ELSE IF ~InSubtree(resp.oid)
        THEN /\ w_pc' = "done"
             /\ UNCHANGED <<w_current, w_seen, w_yielded>>
        ELSE IF SeenBefore(resp.oid, w_seen)
        THEN /\ w_pc' = "done"
             /\ UNCHANGED <<w_current, w_seen, w_yielded>>
        ELSE /\ w_seen' = w_seen \cup {resp.oid}
             /\ w_yielded' = Append(w_yielded, resp.oid)
             /\ w_current' = resp.oid
             /\ w_pc' = "run"
    /\ UNCHANGED w_dev
    /\ UNCHANGED <<loopVars, gmVars, clVars, fnVars>>

NextWalk == WalkCall \/ WalkNext

\* C6: _do_next_walk(base_oid) terminates when the device answers a GET-NEXT with an
\* OID already returned earlier in the same walk: the repeated OID is not
\* yielded again and no further request is sent.
WalkStopsOnRepeatStep ==
    /\ (w_pc = "run" /\ w_dev[w_current].k = "oid"
            /\ w_dev[w_current].oid \in Range(w_yielded))
        => (w_pc' = "done" /\ w_yielded' = w_yielded /\ w_reqs' = w_reqs + 1)
    /\ w_pc = "done" => (w_pc' = "done" /\ w_reqs' = w_reqs /\ w_yielded' = w_yielded)

WalkStopsOnRepeat == [][WalkStopsOnRepeatStep]_vars

\* C6 witness: a walk that yielded several OIDs and ended on a repeated one
WalkStopsOnRepeatWitness ==
    /\ w_pc = "done"
    /\ Len(w_yielded) >= 2
    /\ w_dev[w_current].k = "oid"
    /\ w_dev[w_current].oid \in Range(w_yielded)
    /\ w_reqs = Len(w_yielded) + 1

(***************************************************************************)
(* _do_get_one, _do_get_many and _do_next_walk: the values they hand back  *)
(*                                                                         *)
(* One call of each against a device whose answer is given: a GET of one   *)
(* OID is answered with a value, noSuchObject or noSuchInstance, a         *)
(* GET-NEXT past the last OID of the device with endOfMibView under the    *)
(* OID asked for.                                                          *)
(***************************************************************************)
PlainTexts == {"17", "eth0", ""}
GetTexts == PlainTexts \cup {NoSuchObjectText, NoSuchInstanceText}

\* err_ind or err_stat; the varbinds
GetResponses ==
    {[failed |-> f, vbs |-> v] :
        f \in BOOLEAN, v \in {<<>>} \cup {<<t>> : t \in GetTexts}}

\* _do_get_one
_do_get_one(resp) ==
    IF resp.failed THEN None
    ELSE IF resp.vbs = <<>> THEN None
    ELSE Text(resp.vbs[1])

\* _do_get_many for oids = [oid]: out of the one _fetch_chunk call
_do_get_many(oids, resp) ==
    IF oids = <<>> THEN <<>>
    ELSE IF resp.failed THEN [o \in Range(oids) |-> None]
    ELSE [o \in Range(oids) |->
            IF \E j \in DOMAIN resp.vbs : j = o THEN ChunkValue(resp.vbs[o]) ELSE None]

\* how the device ends a walk
WalkEnds == {"error", "empty", "outside", "endOfMibView"}

ValResp(o, val) == [k |-> "oid", oid |-> o, val |-> val]

\* the device: rows[i] is the value of base_oid.i; the answer to a GET-NEXT of o
WalkDevice(rows, end) ==
    [o \in BaseOid..Len(rows) |->
        IF o < Len(rows) THEN ValResp(o + 1, rows[o + 1])
        ELSE IF end = "error" THEN ErrorResp
        ELSE IF end = "empty" THEN EmptyResp
        ELSE IF end = "outside" THEN ValResp(OutsideOid, "17")
        ELSE ValResp(o, EndOfMibViewText)]

\* _do_next_walk: the while loop from current_oid on
RECURSIVE WalkFrom(_, _, _, _)
WalkFrom(dev, current_oid, seen, yielded) ==
    LET resp == dev[current_oid] IN
    IF resp.k # "oid" THEN yielded
    ELSE IF ~InSubtree(resp.oid) THEN yielded
    ELSE IF resp.oid \in seen THEN yielded
    ELSE WalkFrom(dev, resp.oid, seen \cup {resp.oid},
                  Append(yielded, [oid |-> resp.oid, val |-> Text(resp.val)]))

\* _do_next_walk
_do_next_walk(rows, end) == WalkFrom(WalkDevice(rows, end), BaseOid, {}, <<>>)

WalkTables == UNION {[1..n -> PlainTexts] : n \in 0..WalkOids}

ResponseInputs ==
    {[op |-> "get_one_arg", resp |-> r] : r \in GetResponses}
    \cup {[op |-> "get_many_arg", oids |-> <<1>>, resp |-> r] : r \in GetResponses}
    \cup {[op |-> "walk_arg", rows |-> t, end |-> e] : t \in WalkTables, e \in WalkEnds}

GetOne ==
    /\ fn.op = "get_one_arg"
    /\ fn' = [op |-> "get_one", resp |-> fn.resp, out |-> _do_get_one(fn.resp)]
    /\ UNCHANGED <<loopVars, gmVars, wVars, clVars>>

GetMany ==
    /\ fn.op = "get_many_arg"
    /\ fn' = [op |-> "get_many", oids |-> fn.oids, resp |-> fn.resp,
              out |-> _do_get_many(fn.oids, fn.resp)]
    /\ UNCHANGED <<loopVars, gmVars, wVars, clVars>>

Walk ==
    /\ fn.op = "walk_arg"
    /\ fn' = [op |-> "walk", rows |-> fn.rows, end |-> fn.end,
              out |-> _do_next_walk(fn.rows, fn.end)]
    /\ UNCHANGED <<loopVars, gmVars, wVars, clVars>>

NextResponses == GetOne \/ GetMany \/ Walk

Sentinels == {Text(NoSuchObjectText), Text(NoSuchInstanceText), Text(EndOfMibViewText)}

\* C20: get_one, get_many and walk never hand back the 'no such object',
\* 'no such instance' or 'end of MIB view' sentinel of the device as a value;
\* the OID of such an answer gets an absent value.
NoSentinelReturned ==
    /\ fn.op = "get_one" => fn.out \notin Sentinels
    /\ fn.op = "get_many" => \A o \in DOMAIN fn.out : fn.out[o] \notin Sentinels
    /\ fn.op = "walk" => \A i \in DOMAIN fn.out : fn.out[i].val \notin Sentinels

(***************************************************************************)
(* SwitchSnmpClient: values                                                *)
(*                                                                         *)
(* get_cmd, next_cmd and set_cmd (snmp_compat) report a failed request     *)
(* through the error indication / error status of their result; what       *)
(* raises in a call is the conversion of a value.                          *)
(***************************************************************************)

\* bounds
NumIfs == 2
MaxClock == 2
MaxWall == 2

IfIdx == 1..NumIfs

\* a value whose text is the decimal integer n
Num(n) == [k |-> "num", v |-> n]

\* octet counts are q * 2^30 + r with 0 <= r < 2^30
Limb == 2^30
Big(q, r) == [q |-> q, r |-> r]
BigSub(a, b) ==
    IF a.r >= b.r THEN Big(a.q - b.q, a.r - b.r)
    ELSE Big(a.q - b.q - 1, (a.r - b.r) + Limb)
BigAdd(a, b) ==
    IF a.r + b.r < Limb THEN Big(a.q + b.q, a.r + b.r)
    ELSE Big(a.q + b.q + 1, (a.r - Limb) + b.r)
BigNeg(a) == a.q < 0
BigLess(a, b) == BigNeg(BigSub(a, b))

\* 2 ** 32
Two32 == Big(4, 0)
\* the largest Counter32 and a Counter64 above it
MaxU32 == Big(3, Limb - 1)
Above32 == Big(4, 1)

\* a value whose text is the decimal octet count c
Ctr(c) == [k |-> "ctr", c |-> c]

\* _parse_numeric: int(val), else int(float(val)), else None; int(float("inf"))
\* raises OverflowError, which _parse_numeric does not catch
Overflow == [k |-> "overflow"]
_parse_numeric(val) ==
    IF val.k = "num" THEN val
    ELSE IF val.k = "text" /\ val.s \in {"inf", "Infinity", "1e999"} THEN Overflow
    ELSE None

\* int(val) of a walked or fetched value: the integer, or an exception
IntRaises(val) == val.k # "num"

\* tbl.setdefault(idx, {})[key] = v
Put(tbl, idx, key, v) ==
    LET old == IF idx \in DOMAIN tbl THEN tbl[idx] ELSE <<>>
    IN (idx :> ((key :> v) @@ old)) @@ tbl

SetMin(S) == CHOOSE x \in S : \A y \in S : x <= y

\* for oid, val in walk: tbl.setdefault(idx, {})[key] = int(val), rows in OID
\* order; the first value that is not an integer raises out of the loop
WalkIntsInto(tbl, rows, key) ==
    LET bad == {i \in DOMAIN rows : IntRaises(rows[i])}
        done == IF bad = {} THEN DOMAIN rows
                ELSE {i \in DOMAIN rows : i < SetMin(bad)}
        put[n \in 0..NumIfs] ==
            IF n = 0 THEN tbl
            ELSE IF n \in done THEN Put(put[n - 1], n, key, rows[n].v)
            ELSE put[n - 1]
    IN [tbl |-> put[NumIfs], raised |-> bad # {}]

\* for oid, val in walk: tbl.setdefault(idx, {})[key] = str(val)
WalkStrsInto(tbl, rows, key) ==
    LET put[n \in 0..NumIfs] ==
            IF n = 0 THEN tbl
            ELSE IF n \in DOMAIN rows THEN Put(put[n - 1], n, key, rows[n])
            ELSE put[n - 1]
    IN put[NumIfs]

(***************************************************************************)
(* classify_port_type (helpers.py)                                         *)
(*                                                                         *)
(* A name is the sequence of its characters; strip, lower, `in` and        *)
(* startswith are computed on the characters.                              *)
(***************************************************************************)
VIRTUAL_IFTYPES == {24, 53, 135, 161, 131}

UpperToLower ==
    [A |-> "a", B |-> "b", C |-> "c", D |-> "d", E |-> "e", F |-> "f", G |-> "g", H |-> "h", I |-> "i", J |-> "j", K |-> "k", L |-> "l", M |-> "m",
     N |-> "n", O |-> "o", P |-> "p", Q |-> "q", R |-> "r", S |-> "s", T |-> "t", U |-> "u", V |-> "v", W |-> "w", X |-> "x", Y |-> "y", Z |-> "z"]

Lower(s) ==
    [i \in 1..Len(s) |-> IF s[i] \in DOMAIN UpperToLower THEN UpperToLower[s[i]] ELSE s[i]]

Strip(s) ==
    LET inked == {i \in 1..Len(s) : s[i] # " "}
    IN  IF inked = {} THEN <<>> ELSE SubSeq(s, SetMin(inked), SetMax(inked))

StartsWith(s, t) == Len(t) <= Len(s) /\ SubSeq(s, 1, Len(t)) = t

Contains(s, t) == \E i \in 0..(Len(s) - Len(t)) : SubSeq(s, i + 1, i + Len(t)) = t

VirtualTokens ==
    {<<"v", "l", "a", "n">>,
     <<"l", "o", "o", "p", "b", "a", "c", "k">>,
     <<"m", "g", "m", "t">>,
     <<"m", "a", "n", "a", "g", "e", "m", "e", "n", "t">>,
     <<"i", "r", "b">>,
     <<"b", "d", "i">>,
     <<"s", "v", "i">>,
     <<"b", "r", "i", "d", "g", "e">>,
     <<"p", "o", "r", "t", "-", "c", "h", "a", "n", "n", "e", "l">>,
     <<"b", "o", "n", "d">>,
     <<"l", "a", "g">>}

VirtualPrefixes == {<<"b", "r">>,
                    <<"l", "o">>}

EthernetTokens ==
    {<<"g", "i", "g", "a", "b", "i", "t">>,
     <<"g", "i", "g", "e">>,
     <<"g", "i">>,
     <<"f", "a", "s", "t", "e", "t", "h", "e", "r", "n", "e", "t">>,
     <<"f", "a">>,
     <<"e", "t", "h", "e", "r", "n", "e", "t">>,
     <<"e", "t", "h">>,
     <<"t", "e", "n", "g", "i", "g">>,
     <<"t", "e", "n">>,
     <<"t", "e">>,
     <<"g", "e">>,
     <<"x", "e">>}

PortPrefix == <<"p", "o", "r", "t">>

EthernetCsmacd == 6

IsVirtualTypeNoLag(if_type) == if_type.k = "num" /\ if_type.v \in VIRTUAL_IFTYPES \ {161}

IsVirtualType(if_type) == if_type.k = "num" /\ if_type.v \in VIRTUAL_IFTYPES

IsVirtualName(nm) ==
    \/ \E tok \in VirtualTokens : Contains(nm, tok)
    \/ \E pre \in VirtualPrefixes : StartsWith(nm, pre)

LooksEthernet(nm) ==
    \/ StartsWith(nm, PortPrefix)
    \/ \E tok \in EthernetTokens : Contains(nm, tok)

BridgeRuleNever(port_type, is_bridge_port) == FALSE

BridgeRule(port_type, is_bridge_port) == port_type = "unknown" /\ is_bridge_port

classify_port_type(if_type, name, is_bridge_port) ==
    LET nm == Lower(Strip(name))
        strong == IF IsVirtualType(if_type) \/ IsVirtualName(nm)
                  THEN "virtual" ELSE "unknown"
        bridged == IF BridgeRule(strong, is_bridge_port) THEN "physical" ELSE strong
    IN  IF bridged = "unknown" /\ if_type = Num(EthernetCsmacd) /\ LooksEthernet(nm)
        THEN "physical" ELSE bridged

(***************************************************************************)
(* SwitchSnmpClient: interface table                                       *)
(***************************************************************************)

\* ifAlias as a device reports it
Aliases == {"", "uplink"}

\* str(n) for an interface index
DigitChars == <<"1", "2", "3", "4", "5", "6", "7", "8", "9">>
IfIndexText(idx) == <<"i", "f", "I", "n", "d", "e", "x", " ", DigitChars[idx]>>

\* rec.get(key) or ""
StrOf(rec, key) == IF key \in DOMAIN rec THEN rec[key] ELSE <<>>

\* a display_name that is already populated is kept, else name, descr, "ifIndex N"
DisplayName(rec, idx) ==
    IF Strip(StrOf(rec, "display_name")) # <<>> THEN Strip(StrOf(rec, "display_name"))
    ELSE IF Strip(StrOf(rec, "name")) # <<>> THEN Strip(StrOf(rec, "name"))
    ELSE IF Strip(StrOf(rec, "descr")) # <<>> THEN Strip(StrOf(rec, "descr"))
    ELSE IfIndexText(idx)

\* rec["if_type"] = int(val), None on exception
IfTypeOf(val) == IF IntRaises(val) THEN None ELSE val

\* rec.get("if_type")
GetIfType(rec) == IF "if_type" \in DOMAIN rec THEN rec.if_type ELSE None

\* str(rec.get("display_name") or rec.get("name") or rec.get("descr") or "")
ClassifyName(rec) ==
    IF StrOf(rec, "display_name") # <<>> THEN rec.display_name
    ELSE IF StrOf(rec, "name") # <<>> THEN rec.name
    ELSE StrOf(rec, "descr")

\* _async_walk_interfaces(dynamic_only=False), up to the status walks: the
\* table is built anew from the index, descr, name and alias walks, then the
\* display names, the interface types and the port types are filled in
WalkInterfacesFull(rows) ==
    LET t0 == [i \in rows.index |-> [index |-> i]]
        t1 == WalkStrsInto(t0, rows.descr, "descr")
        t2 == WalkStrsInto(t1, rows.name, "name")
        t3 == WalkStrsInto(t2, rows.alias, "alias")
        t4 == [i \in DOMAIN t3 |-> ("display_name" :> DisplayName(t3[i], i)) @@ t3[i]]
        t5 == [i \in DOMAIN t4 |->
                 IF i \in DOMAIN rows.iftype
                 THEN ("if_type" :> IfTypeOf(rows.iftype[i])) @@ t4[i]
                 ELSE t4[i]]
    IN [i \in DOMAIN t5 |->
          ("port_type" :> classify_port_type(GetIfType(t5[i]), ClassifyName(t5[i]),
                                             i \in rows.bridge))
          @@ ("is_bridge_port" :> (i \in rows.bridge)) @@ t5[i]]

\* the ifAdminStatus and ifOperStatus walks that end _async_walk_interfaces
WalkStatus(tbl, rows) ==
    LET a == WalkIntsInto(tbl, rows.admin, "admin")
    IN IF a.raised THEN a ELSE WalkIntsInto(a.tbl, rows.oper, "oper")

(***************************************************************************)
(* SwitchSnmpClient: IPv4 bindings                                         *)
(***************************************************************************)

\* addresses a device may report; _is_usable_ipv4 drops the loopback address
IpAddrs == {"10.0.0.1", "10.0.0.2", "127.0.0.1"}
_is_usable_ipv4(ip) == ip # "127.0.0.1"

\* ip_index[ip] = None
NoIfIndex == 0

\* a device that answers nothing to the address walks
NoIpv4 == [addrs |-> {}, ifindex |-> <<>>]

\* the ip_index map one run of _async_walk_ipv4 builds from the ipAdEntAddr
\* and ipAdEntIfIndex walks; the index column is walked only when the
\* address column answered, and a row whose value is no number is skipped
WalkIpv4(in) ==
    IF in.addrs = {} THEN <<>>
    ELSE
      LET listed == {ip \in in.addrs : _is_usable_ipv4(ip)}
          indexed == {ip \in DOMAIN in.ifindex :
                        _is_usable_ipv4(ip) /\ _parse_numeric(in.ifindex[ip]).k = "num"}
      IN [ip \in listed \cup indexed |->
            IF ip \in indexed THEN _parse_numeric(in.ifindex[ip]).v ELSE NoIfIndex]

\* if ip_index: self.cache["ipIndex"] = ip_index
CommitIpIndex(old, ip_index) == IF DOMAIN ip_index # {} THEN ip_index ELSE old

\* _attach_ipv4_to_interfaces: clear the derived fields of every record, then
\* attach each address of ipIndex to the record of its interface
AttachIpv4(tbl, ip_idx) ==
    [i \in DOMAIN tbl |->
        LET rec == tbl[i]
            cleared == [k \in (DOMAIN rec) \ {"ipv4", "ip"} |-> rec[k]]
            addrs == {ip \in DOMAIN ip_idx : ip_idx[ip] # NoIfIndex /\ ip_idx[ip] = i}
        IN IF addrs = {} THEN cleared
           ELSE IF Cardinality(addrs) = 1
           THEN [ipv4 |-> addrs, ip |-> CHOOSE a \in addrs : TRUE] @@ cleared
           ELSE [ipv4 |-> addrs] @@ cleared]

\* _async_walk_ipv4 followed by _attach_ipv4_to_interfaces
RefreshIpv4(c, in) ==
    LET idx == CommitIpIndex(c.ipIndex, WalkIpv4(in))
    IN [c EXCEPT !.ipIndex = idx, !.ifTable = AttachIpv4(c.ifTable, idx)]

(***************************************************************************)
(* _async_walk_ipv4: subnet masks                                          *)
(*                                                                         *)
(* An address, a network and a mask are the tuples of their four octets.   *)
(***************************************************************************)
\* how many of the leading bits of octet k a prefix of the given length covers
OctetBits(bits, k) == Max(0, Min(8, bits - 8 * (k - 1)))

\* _bits_to_mask
_bits_to_mask(bits) ==
    IF bits <= 0 THEN <<0, 0, 0, 0>>
    ELSE IF bits >= 32 THEN <<255, 255, 255, 255>>
    ELSE [k \in 1..4 |-> 256 - 2^(8 - OctetBits(bits, k))]

\* bits == 0 or (ip_int & mask_int) == (net_int & mask_int)
RouteContains(route, ip) ==
    \/ route.bits = 0
    \/ \A k \in 1..4 :
         ip[k] \div 2^(8 - OctetBits(route.bits, k))
            = route.net[k] \div 2^(8 - OctetBits(route.bits, k))

\* route_prefixes.sort(key=bits, reverse=True); the first route that contains ip
FirstRoute(routes, ip) ==
    CHOOSE r \in routes :
        /\ RouteContains(r, ip)
        /\ \A q \in routes : RouteContains(q, ip) => q.bits <= r.bits

\* step (4): for every address of ip_index, ip_mask[ip] of the first route
\* that contains it
InferMasks(addrs, ip_mask, routes) ==
    IF routes = {} \/ addrs = {} THEN ip_mask
    ELSE LET hit == {ip \in addrs : \E r \in routes : RouteContains(r, ip)}
         IN [ip \in (DOMAIN ip_mask) \cup hit |->
                IF ip \in hit THEN _bits_to_mask(FirstRoute(routes, ip).bits)
                ELSE ip_mask[ip]]

MaskAddrs == {<<10, 0, 0, 1>>, <<10, 1, 0, 1>>, <<192, 168, 1, 1>>}
LegacyMasks == {<<255, 255, 255, 0>>, <<255, 255, 0, 0>>}
Route(net, bits) == [net |-> net, bits |-> bits]
Routes ==
    {Route(<<0, 0, 0, 0>>, 0), Route(<<10, 0, 0, 0>>, 8), Route(<<10, 0, 0, 0>>, 24),
     Route(<<10, 1, 0, 0>>, 16), Route(<<192, 168, 1, 0>>, 24)}

MaskInputs ==
    UNION {UNION {{[op |-> "mask_arg", addrs |-> A, ip_mask |-> m, routes |-> R] :
                      m \in [K -> LegacyMasks], R \in SUBSET Routes} :
                  K \in SUBSET A} :
           A \in SUBSET MaskAddrs}

WalkMasks ==
    /\ fn.op = "mask_arg"
    /\ fn' = [op |-> "mask", addrs |-> fn.addrs, ip_mask |-> fn.ip_mask,
              routes |-> fn.routes,
              out |-> InferMasks(fn.addrs, fn.ip_mask, fn.routes)]
    /\ UNCHANGED <<loopVars, gmVars, wVars, clVars>>

NextMask == WalkMasks

\* C24: an address whose mask the legacy table reported keeps that mask, and
\* an address without one gets the mask of the longest-prefix route that
\* contains it
MaskOnlyWhereMissing ==
    fn.op = "mask" =>
        \A ip \in fn.addrs :
            IF ip \in DOMAIN fn.ip_mask
            THEN ip \in DOMAIN fn.out /\ fn.out[ip] = fn.ip_mask[ip]
            ELSE \A r \in fn.routes :
                    (/\ RouteContains(r, ip)
                     /\ \A q \in fn.routes : RouteContains(q, ip) => q.bits <= r.bits)
                        => (ip \in DOMAIN fn.out /\ fn.out[ip] = _bits_to_mask(r.bits))

(***************************************************************************)
(* SwitchSnmpClient: bandwidth rate engine                                 *)
(***************************************************************************)

\* self._bw_last_poll = None
NoPoll == -1

\* what a GET of an octet counter answers: nothing, a decimal count, other text
Vals32 == {None, Text("abc"), Ctr(Big(0, 0)), Ctr(MaxU32)}
Vals64 == Vals32 \cup {Ctr(Above32)}

\* str(row.get("name") or "").strip()
NameOf(rec) == Strip(StrOf(rec, "name"))

\* the interfaces selected by the include / exclude rules; the rules are the
\* sets of names they match
BwSelected(tbl, o) ==
    {i \in DOMAIN tbl :
        /\ NameOf(tbl[i]) # <<>>
        /\ (o.bw_include # {} => NameOf(tbl[i]) \in o.bw_include)
        /\ NameOf(tbl[i]) \notin o.bw_exclude}

\* the throttle of the bandwidth counter poll
BwDue(c, o, now) ==
    /\ o.bw_enable
    /\ ~(c.bw_last_poll # NoPoll /\ now - c.bw_last_poll < o.bw_interval)

\* detect whether 64-bit counters are supported (once)
BwProbeEveryTick(c, sel, probe) ==
    IF sel = {} THEN "legacy"
    ELSE IF probe = None THEN "legacy"
    ELSE IF probe.k \notin {"num", "ctr"} THEN "legacy"
    ELSE "hc"
BwProbe(c, sel, probe) ==
    IF c.bw_use_hc # "none" THEN c.bw_use_hc
    ELSE IF sel = {} THEN "legacy"
    ELSE IF probe = None THEN "legacy"
    ELSE IF probe.k \notin {"num", "ctr"} THEN "legacy"
    ELSE "hc"

\* int(rx_v) if rx_v is not None else None, None on exception
ParseOctets(v) == IF v.k = "ctr" THEN v ELSE None

\* last_ts = float(last.get("ts") or 0.0); dt = (now_ts - last_ts) if last_ts else 0.0
BwDt(last, i, now_ts) ==
    IF i \in DOMAIN last /\ last[i].ts # 0 THEN now_ts - last[i].ts ELSE 0

\* if dt > 0
BwHasDtOrZero(dt) == dt >= 0
BwHasDt(dt) == dt > 0

\* delta = cur - prev; if not use_hc and delta < 0: delta += 2 ** 32
BwDeltaNoWrap(cur, prev, use_hc) == BigSub(cur, prev)
BwDeltaWrapAlways(cur, prev, use_hc) ==
    IF BigNeg(BigSub(cur, prev)) THEN BigAdd(BigSub(cur, prev), Two32)
    ELSE BigSub(cur, prev)
BwDelta(cur, prev, use_hc) ==
    IF ~use_hc /\ BigNeg(BigSub(cur, prev)) THEN BigAdd(BigSub(cur, prev), Two32)
    ELSE BigSub(cur, prev)

\* rx_bps / tx_bps: None, or (delta * 8.0) / dt kept as the pair delta, dt
BwRate(cur, last, i, key, dt, use_hc) ==
    IF BwHasDt(dt) /\ cur # None /\ i \in DOMAIN last /\ last[i][key] # None
    THEN [delta |-> BwDelta(cur.c, last[i][key].c, use_hc), dt |-> dt]
    ELSE None

\* the body of the bandwidth tick after the counters were fetched
BwTick(c, sel, hc, got, now_ts) ==
    LET use_hc == (hc = "hc")
        upd == {i \in sel : ~(got[i].rx = None /\ got[i].tx = None)}
        entry(i) == [ts |-> now_ts,
                     rx |-> ParseOctets(got[i].rx),
                     tx |-> ParseOctets(got[i].tx)]
        dt(i) == BwDt(c.bw_last, i, now_ts)
    IN [c EXCEPT
          !.bw_use_hc = hc,
          !.bw_last = [i \in (DOMAIN c.bw_last) \cup upd |->
                          IF i \in upd THEN entry(i) ELSE c.bw_last[i]],
          !.keys = @ \cup {"bandwidth"},
          !.bandwidth = [i \in upd |->
                          [ts |-> now_ts,
                           rx_octets |-> entry(i).rx,
                           tx_octets |-> entry(i).tx,
                           rx_bps |-> BwRate(entry(i).rx, c.bw_last, i, "rx", dt(i), use_hc),
                           tx_bps |-> BwRate(entry(i).tx, c.bw_last, i, "tx", dt(i), use_hc),
                           use_hc |-> use_hc]]]

\* the bandwidth part of async_poll
BwStep(r, o, now, in) ==
    IF ~BwDue(r.c, o, now) THEN r
    ELSE
      LET c1 == [r.c EXCEPT !.bw_last_poll = now]
          sel == BwSelected(c1.ifTable, o)
          hc == BwProbe(c1, sel, in.probe)
      IN [r EXCEPT !.c = BwTick(c1, sel, hc, in.got, in.now_ts),
                   !.ran = @ \cup {"bw"}]

(***************************************************************************)
(* SwitchSnmpClient: PoE and environmental pollers                         *)
(***************************************************************************)

PoeKeys == {"poe_budget_total_w", "poe_power_used_w", "poe_power_available_w",
            "poe_health_status", "poe_health_status_raw"}

SeqSum(q) ==
    LET sum[n \in 0..Len(q)] == IF n = 0 THEN 0 ELSE sum[n - 1] + q[n]
    IN sum[Len(q)]

\* some row of the column raises in _parse_numeric
ColRaises(col) == \E n \in DOMAIN col : _parse_numeric(col[n]) = Overflow

\* one column walk of the PoE totals: the numbers of the rows; a row whose
\* conversion raises empties the list (except Exception: list = [])
PoeColumn(col, nonneg) ==
    IF ColRaises(col) THEN <<>>
    ELSE LET keep(v) == _parse_numeric(v) # None /\ (nonneg => _parse_numeric(v).v >= 0)
         IN [n \in DOMAIN SelectSeq(col, keep) |-> SelectSeq(col, keep)[n].v]

\* _worst_poe_health: unknown codes rank as FAULTY (3)
WorstPoeHealth(q) ==
    LET rank(v) == IF v \in {1, 2, 3} THEN v ELSE 3
        worst[n \in 0..Len(q)] == IF n = 0 THEN 0 ELSE Max(worst[n - 1], rank(q[n]))
    IN worst[Len(q)]

\* publish the PoE summary; power is kept in mW (used_w = sum / 1000.0)
PoePublish(c, budget, used, health) ==
    IF budget = <<>> /\ used = <<>> /\ health = <<>>
    THEN [c EXCEPT !.keys = @ \ PoeKeys]
    ELSE
      LET avail == (SeqSum(budget) * 1000) - SeqSum(used)
      IN [c EXCEPT
            !.keys = (@ \ PoeKeys)
                \cup (IF budget # <<>> THEN {"poe_budget_total_w"} ELSE {})
                \cup (IF used # <<>> THEN {"poe_power_used_w"} ELSE {})
                \cup (IF budget # <<>> /\ used # <<>> THEN {"poe_power_available_w"} ELSE {})
                \cup (IF health # <<>> THEN {"poe_health_status", "poe_health_status_raw"} ELSE {}),
            !.poe_budget_total_w = IF budget # <<>> THEN SeqSum(budget) ELSE 0,
            !.poe_power_used_mw = IF used # <<>> THEN SeqSum(used) ELSE 0,
            !.poe_power_available_mw =
                IF budget # <<>> /\ used # <<>> THEN Max(0, avail) ELSE 0,
            !.poe_health_status_raw = IF health # <<>> THEN WorstPoeHealth(health) ELSE 0]

\* a table walk into a dict idx -> number; a row whose conversion raises
\* raises out of the loop
PowerRows(rows) ==
    [raised |-> \E i \in DOMAIN rows : _parse_numeric(rows[i]) = Overflow,
     dict |-> [i \in {j \in DOMAIN rows : _parse_numeric(rows[j]).k = "num"} |->
                 _parse_numeric(rows[i]).v]]

DictSum(d) ==
    LET sum[n \in 0..NumIfs] ==
            IF n = 0 THEN 0 ELSE sum[n - 1] + (IF n \in DOMAIN d THEN d[n] ELSE 0)
    IN sum[NumIfs]

\* should_poll of the PoE and of the environmental poller
PoeDueNoBootstrap(c, o, now) ==
    /\ o.poe_enable
    /\ now - c.poe_last_poll >= Max(1, o.poe_interval)
PoeDue(c, o, now) ==
    /\ o.poe_enable
    /\ (now - c.poe_last_poll >= Max(1, o.poe_interval) \/ c.poe_last_poll = 0)
EnvDuePoeInterval(c, o, now) ==
    /\ o.env_enable
    /\ (now - c.env_last_poll >= o.poe_interval \/ c.env_last_poll = 0)
EnvDue(c, o, now) ==
    /\ o.env_enable
    /\ (now - c.env_last_poll >= o.env_interval \/ c.env_last_poll = 0)

\* the PoE part of async_poll
PoeStep(r, o, now, in) ==
    LET c0 == [r.c EXCEPT !.keys = @ \cup {"poe_power_mw"}] IN
    IF ~o.poe_enable
    THEN [r EXCEPT !.c = [c0 EXCEPT !.poe_power_mw = <<>>, !.keys = @ \ PoeKeys]]
    ELSE IF ~PoeDue(c0, o, now) THEN [r EXCEPT !.c = c0]
    ELSE
      LET c1 == [c0 EXCEPT !.poe_last_poll = now]
          budget == PoeColumn(in.budget, TRUE)
          used == PoeColumn(in.used, TRUE)
          health == PoeColumn(in.health, FALSE)
          fallback == budget = <<>> /\ used = <<>> /\ health = <<>>
          scalars == <<in.s_budget, in.s_used, in.s_health>>
          one(v) == IF _parse_numeric(v) = None THEN <<>> ELSE <<_parse_numeric(v).v>>
          ports == PowerRows(in.ports)
      IN
        IF fallback /\ \E n \in 1..3 : _parse_numeric(scalars[n]) = Overflow
        THEN [r EXCEPT !.c = c1, !.exc = "poe", !.ran = @ \cup {"poe"},
                       !.threw = @ \cup {"poe"}]
        ELSE
          LET c2 == IF fallback
                    THEN PoePublish(c1, one(in.s_budget), one(in.s_used), one(in.s_health))
                    ELSE PoePublish(c1, budget, used, health)
          IN [r EXCEPT
                !.c = [c2 EXCEPT !.poe_power_mw = IF ports.raised THEN <<>> ELSE ports.dict],
                !.ran = @ \cup {"poe"},
                !.threw = @ \cup (IF ports.raised \/ ColRaises(in.budget)
                                     \/ ColRaises(in.used) \/ ColRaises(in.health)
                                  THEN {"poe"} ELSE {})]

\* the environmental power part of async_poll
EnvStep(r, o, now, in) ==
    LET c0 == [r.c EXCEPT
                 !.env_power_mw_total = IF "env_power_mw_total" \in r.c.keys THEN @ ELSE 0,
                 !.keys = @ \cup {"env_power_mw", "env_power_mw_total"}]
    IN
    IF ~o.env_enable
    THEN [r EXCEPT !.c = [c0 EXCEPT !.env_power_mw = <<>>, !.env_power_mw_total = 0]]
    ELSE IF ~EnvDue(c0, o, now) THEN [r EXCEPT !.c = c0]
    ELSE
      LET c1 == [c0 EXCEPT !.env_last_poll = now]
          rows == PowerRows(in.env)
      IN IF rows.raised
         THEN [r EXCEPT !.c = c1, !.exc = "env", !.ran = @ \cup {"env"},
                        !.threw = @ \cup {"env"}]
         ELSE [r EXCEPT !.c = [c1 EXCEPT !.env_power_mw = rows.dict,
                                         !.env_power_mw_total = DictSum(rows.dict)],
                        !.ran = @ \cup {"env"}]

(***************************************************************************)
(* _decode_bridge_port_bitmap                                              *)
(***************************************************************************)

\* no call of a module-level function is in progress
InitFn == fn = [op |-> "none"]

\* no coroutine has been started; the agent is not consulted
NoTasks == [poll |-> [pc |-> "idle"], set |-> [pc |-> "idle"]]
NoAgent == [admin |-> <<>>, alias |-> <<>>]
InitLoop == tasks = NoTasks /\ agent = NoAgent

\* the highest bridge port of the port sets
MaxPort == 10

\* a PortList value as the walk hands it over: raw octets, or the text
\* "0x" followed by hexadecimal digits
Bytes(o) == [k |-> "bytes", o |-> o]
HexText(d) == [k |-> "hex", d |-> d]

\* port n sets bit 0x80 >> ((n - 1) mod 8) of octet (n - 1) div 8
EncodeOctet(S, i) ==
    LET sum[b \in 0..8] ==
            IF b = 0 THEN 0
            ELSE sum[b - 1] + (IF (i * 8) + b \in S THEN 2^(8 - b) ELSE 0)
    IN sum[8]
EncodePortList(S, pad) ==
    LET n == (IF S = {} THEN 0 ELSE ((SetMax(S) - 1) \div 8) + 1) + pad
    IN [i \in 1..n |-> EncodeOctet(S, i - 1)]

\* the two hexadecimal digits of each octet
HexDigits(o) ==
    [j \in 1..(2 * Len(o)) |->
        IF j % 2 = 1 THEN o[(j + 1) \div 2] \div 16 ELSE o[j \div 2] % 16]

\* _as_bytes: bytes as they are; None as b""; "0x..." through bytes.fromhex,
\* which fails on an odd number of digits
_as_bytes(val) ==
    IF val.k = "bytes" THEN val.o
    ELSE IF val.k = "hex" /\ Len(val.d) > 0 /\ Len(val.d) % 2 = 0
    THEN [i \in 1..(Len(val.d) \div 2) |-> (val.d[(2 * i) - 1] * 16) + val.d[2 * i]]
    ELSE <<>>

\* b & (0x80 >> bit)
BitSetLsbFirst(b, bit) == (b \div 2^bit) % 2 = 1
BitSet(b, bit) == (b \div 2^(7 - bit)) % 2 = 1

_decode_bridge_port_bitmap(val) ==
    LET data == _as_bytes(val)
    IN {((oct_i * 8) + bit) + 1 : <<oct_i, bit>> \in
            {x \in (0..(Len(data) - 1)) \X (0..7) : BitSet(data[x[1] + 1], x[2])}}

\* the PortList values of every port set, with and without a trailing zero octet
PortListsOf(S) ==
    {Bytes(EncodePortList(S, 0)), Bytes(EncodePortList(S, 1)),
     HexText(HexDigits(EncodePortList(S, 0)))}
BitmapInputs ==
    UNION {{[op |-> "decode_arg", ports |-> S, val |-> v] : v \in PortListsOf(S)} :
           S \in SUBSET (1..MaxPort)}

DecodeBitmap ==
    /\ fn.op = "decode_arg"
    /\ fn' = [op |-> "decode", ports |-> fn.ports, val |-> fn.val,
              out |-> _decode_bridge_port_bitmap(fn.val)]
    /\ UNCHANGED <<loopVars, gmVars, wVars, clVars>>

NextBitmap == DecodeBitmap

\* C16: decoding the MSB-first packing of a set of bridge ports returns the set
BitmapRoundTrip == fn.op = "decode" => fn.out = fn.ports
BitmapRoundTripWitness ==
    /\ fn.op = "decode"
    /\ fn.ports = {1, 8, 9}
    /\ fn.val = Bytes(<<129, 128>>)
    /\ fn.out = {1, 8, 9}

(***************************************************************************)
(* classify_port_type: calls                                               *)
(***************************************************************************)
IfTypes == {None} \cup {Num(n) : n \in VIRTUAL_IFTYPES \cup {1, EthernetCsmacd}}

PortNames ==
    {<<>>,
     <<"G", "i", "1", "/", "0", "/", "1">>,
     <<" ", "V", "l", "a", "n", "1", "0", " ">>,
     <<"L", "o", "o", "p", "b", "a", "c", "k", "0">>,
     <<"m", "g", "m", "t", "0">>,
     <<"M", "a", "n", "a", "g", "e", "m", "e", "n", "t", "1">>,
     <<"i", "r", "b", ".", "1", "0", "0">>,
     <<"B", "D", "I", "5">>,
     <<"s", "v", "i", "1">>,
     <<"b", "r", "i", "d", "g", "e", "0">>,
     <<"P", "o", "r", "t", "-", "c", "h", "a", "n", "n", "e", "l", "1">>,
     <<"P", "o", "r", "t", "c", "h", "a", "n", "n", "e", "l", "1">>,
     <<"l", "a", "g", "1">>,
     <<"b", "o", "n", "d", "0">>,
     <<"b", "r", "0">>,
     <<"l", "o">>,
     <<"P", "o", "r", "t", " ", "1">>,
     <<"e", "t", "h", "0">>,
     <<"x", "e", "-", "0", "/", "0", "/", "1">>,
     <<"F", "a", "s", "t", "E", "t", "h", "e", "r", "n", "e", "t", "0", "/", "1">>,
     <<"u", "n", "i", "t", "7">>,
     <<"s", "f", "p", "1">>}

ClassifyInputs ==
    {[op |-> "classify_arg", if_type |-> ty, name |-> nm, is_bridge_port |-> b] :
        ty \in IfTypes, nm \in PortNames, b \in BOOLEAN}

Classify ==
    /\ fn.op = "classify_arg"
    /\ fn' = [op |-> "classify", if_type |-> fn.if_type, name |-> fn.name,
              is_bridge_port |-> fn.is_bridge_port,
              out |-> classify_port_type(fn.if_type, fn.name, fn.is_bridge_port)]
    /\ UNCHANGED <<loopVars, gmVars, wVars, clVars>>

NextClassify == Classify

\* C17: an interface whose type code is one of 24, 53, 131, 135 and 161 is
\* classified 'virtual', whatever its name and whether or not it is a bridge
\* port.
VirtualTypeWins ==
    (fn.op = "classify" /\ fn.if_type \in {Num(24), Num(53), Num(131), Num(135), Num(161)})
        => fn.out = "virtual"

VirtualTypeWinsWitness ==
    /\ fn.op = "classify"
    /\ fn.if_type = Num(161)
    /\ fn.name = <<"G", "i", "1", "/", "0", "/", "1">>
    /\ fn.is_bridge_port
    /\ fn.out = "virtual"

ClaimedVirtualTokens ==
    {<<"v", "l", "a", "n">>,
     <<"l", "o", "o", "p", "b", "a", "c", "k">>,
     <<"m", "g", "m", "t">>,
     <<"m", "a", "n", "a", "g", "e", "m", "e", "n", "t">>,
     <<"i", "r", "b">>,
     <<"b", "d", "i">>,
     <<"s", "v", "i">>,
     <<"b", "r", "i", "d", "g", "e">>,
     <<"p", "o", "r", "t", "-", "c", "h", "a", "n", "n", "e", "l">>,
     <<"p", "o", "r", "t", "c", "h", "a", "n", "n", "e", "l">>,
     <<"l", "a", "g">>,
     <<"b", "o", "n", "d">>}

ClaimedVirtualName(nm) ==
    \/ \E tok \in ClaimedVirtualTokens : Contains(nm, tok)
    \/ StartsWith(nm, <<"b", "r">>)
    \/ StartsWith(nm, <<"l", "o">>)

\* C18: an interface whose type code is outside the virtual set is classified
\* 'virtual' whenever its name contains one of vlan, loopback, mgmt,
\* management, irb, bdi, svi, bridge, port-channel, portchannel, lag, bond, or
\* starts with 'br' or 'lo', whatever the bridge flag and even when the type
\* is Ethernet.
VirtualNameWins ==
    (/\ fn.op = "classify"
     /\ ~(fn.if_type.k = "num" /\ fn.if_type.v \in {24, 53, 131, 135, 161})
     /\ ClaimedVirtualName(Lower(Strip(fn.name))))
        => fn.out = "virtual"

\* C19: an interface matched neither by the virtual type set nor by a
\* virtual-indicating name is 'physical' when it is a bridge port, otherwise
\* 'physical' when its type is 6 and its name looks like an Ethernet port,
\* otherwise 'unknown'.
PhysicalOrUnknown ==
    (/\ fn.op = "classify"
     /\ ~(fn.if_type.k = "num" /\ fn.if_type.v \in {24, 53, 131, 135, 161})
     /\ ~ClaimedVirtualName(Lower(Strip(fn.name))))
        => fn.out = IF fn.is_bridge_port THEN "physical"
                    ELSE IF fn.if_type = Num(6) /\ LooksEthernet(Lower(Strip(fn.name)))
                         THEN "physical"
                         ELSE "unknown"

PhysicalOrUnknownWitness ==
    /\ fn.op = "classify"
    /\ fn.if_type = Num(1)
    /\ fn.name = <<"G", "i", "1", "/", "0", "/", "1">>
    /\ fn.is_bridge_port
    /\ fn.out = "physical"

(***************************************************************************)
(* _async_walk_interfaces: VLAN membership                                 *)
(*                                                                         *)
(* A Q-BRIDGE PortList table is a function from VLAN id to the PortList    *)
(* octets of its row. Base port n is interface n.                          *)
(***************************************************************************)
VlanIds == {1, 10}

\* the rows of a table in which VLAN v has the ports ports[v]
PortListRows(ports) == [v \in DOMAIN ports |-> Bytes(EncodePortList(ports[v], 0))]

\* _collect_vlan_portlists: invert the rows into port -> {vlans}, added to out
_collect_vlan_portlists(rows, out) ==
    LET listed(bp) == {v \in DOMAIN rows : v > 0 /\ bp \in _decode_bridge_port_bitmap(rows[v])}
        hit == {bp \in 1..(8 * SetMax({Len(_as_bytes(rows[v])) : v \in DOMAIN rows} \cup {0})) :
                   listed(bp) # {}}
    IN [bp \in (DOMAIN out) \cup hit |->
          (IF bp \in DOMAIN out THEN out[bp] ELSE {}) \cup listed(bp)]

\* the two calls for the 'current' tables pass the OID as a keyword argument
\* that _collect_vlan_portlists does not have: TypeError, caught by the
\* except around the call, nothing is collected
CollectCurrent(rows, out) == out

\* the two calls for the 'static' tables
CollectStatic(rows, out) == _collect_vlan_portlists(rows, out)

\* sorted(by_baseport.get(base_port, set())), as the set of its elements
VlansOf(by_baseport, base_port) ==
    IF base_port \in DOMAIN by_baseport THEN by_baseport[base_port] ELSE {}

\* the allowed_vlans and untagged_vlans fields of the interfaces that have a
\* base port, set only when the PVID walk found something
VlanFields(in) ==
    LET allowed_by_baseport == CollectStatic(in.st_egress, CollectCurrent(in.cur_egress, <<>>))
        untagged_by_baseport ==
            CollectStatic(in.st_untagged, CollectCurrent(in.cur_untagged, <<>>))
    IN IF DOMAIN in.pvid = {} THEN <<>>
       ELSE [i \in IfIdx |->
               [allowed_vlans |-> VlansOf(allowed_by_baseport, i),
                untagged_vlans |-> VlansOf(untagged_by_baseport, i)]]

VlanTables == {PortListRows(p) : p \in [VlanIds -> SUBSET IfIdx]}
UntaggedTables ==
    {PortListRows([v \in VlanIds |-> {}]),
     PortListRows([v \in VlanIds |-> IF v = 1 THEN IfIdx ELSE {}])}

VlanInputs ==
    {[op |-> "vlan_arg", in |-> [pvid |-> pv, cur_egress |-> ce, st_egress |-> se,
                                  cur_untagged |-> cu, st_untagged |-> su]] :
        pv \in {<<>>, [i \in IfIdx |-> 1]},
        ce \in VlanTables, se \in VlanTables,
        cu \in UntaggedTables, su \in UntaggedTables}

WalkVlans ==
    /\ fn.op = "vlan_arg"
    /\ fn' = [op |-> "vlan", in |-> fn.in, out |-> VlanFields(fn.in)]
    /\ UNCHANGED <<loopVars, gmVars, wVars, clVars>>

NextVlan == WalkVlans

\* the VLANs whose row of the table lists the port
ListedIn(rows, bp) == {v \in DOMAIN rows : bp \in _decode_bridge_port_bitmap(rows[v])}

\* C25: the allowed and the untagged VLAN set of a bridge port are the union
\* of the VLANs that list the port in the 'current' table and of those that
\* list it in the 'static' table
VlanSetsAreUnion ==
    (fn.op = "vlan" /\ DOMAIN fn.in.pvid # {}) =>
        \A i \in IfIdx :
            /\ fn.out[i].allowed_vlans
                 = ListedIn(fn.in.cur_egress, i) \cup ListedIn(fn.in.st_egress, i)
            /\ fn.out[i].untagged_vlans
                 = ListedIn(fn.in.cur_untagged, i) \cup ListedIn(fn.in.st_untagged, i)

(***************************************************************************)
(* SwitchSnmpClient: manufacturer, model and firmware                      *)
(***************************************************************************)

\* the fields a custom OID can override
CustomKeys == {"manufacturer", "model", "firmware"}

\* sysDescr texts "<mfg> <model>, <fw>": the vendor the heuristics detect in
\* it, the manufacturer that the head yields and the firmware after the comma
SysDescr(vendor, mfg, fw) == [vendor |-> vendor, mfg |-> Text(mfg), fw |-> Text(fw)]
SysDescrs ==
    {SysDescr("generic", "Acme", "1.0"), SysDescr("cbs", "Cisco", "3.0"),
     SysDescr("zyxel", "ZyXEL", "4.0"), SysDescr("mikrotik", "RouterOS", "6.0")}

\* if val: ... val.strip() or fallback
Truthy(v) == v # None /\ v # Text("")
OrElse(v, fallback) == IF Truthy(v) THEN v ELSE fallback

\* a device that answers none of the identity OIDs
NoSys ==
    [sd |-> None, hint |-> None, cbs_rev |-> None, zy_mfg |-> None, zy_fw |-> None,
     mk_ver |-> None, mk_model |-> None, custom |-> [k \in CustomKeys |-> None]]

\* (model_hint and "CBS" in model_hint) or ("CBS" in sd)
IsCbs(hint, sd) == hint = Text("CBS350") \/ (sd # None /\ sd.vendor = "cbs")

\* the value a configured custom OID yields over the value computed so far
CustomOver(custom, in, key, sofar) ==
    IF key \in custom THEN OrElse(in.custom[key], sofar) ELSE sofar

\* the identity part of async_initialize
InitializeSys(c, custom, in) ==
    LET sd == in.sd
        m0 == IF sd # None THEN sd.mfg ELSE None
        f0 == IF sd # None THEN sd.fw ELSE None
        f1 == IF IsCbs(in.hint, sd) THEN OrElse(in.cbs_rev, f0) ELSE f0
        zy == sd # None /\ sd.vendor = "zyxel"
        m2 == IF zy THEN OrElse(in.zy_mfg, m0) ELSE m0
        f2 == IF zy THEN OrElse(in.zy_fw, f1) ELSE f1
        mk == sd # None /\ sd.vendor = "mikrotik"
        m3 == IF mk THEN Text("MikroTik") ELSE m2
        f3 == IF mk THEN OrElse(in.mk_ver, f2) ELSE f2
        d3 == IF mk THEN OrElse(in.mk_model, in.hint) ELSE in.hint
    IN [c EXCEPT !.sysDescr = sd,
                 !.manufacturer = CustomOver(custom, in, "manufacturer", m3),
                 !.firmware = CustomOver(custom, in, "firmware", f3),
                 !.model = CustomOver(custom, in, "model", d3)]

\* the identity part of async_poll: nothing is re-evaluated without a
\* sysDescr; the CBS request fails on its arguments, so sw_rev is None; the
\* custom OID of the model is not read
PollSys(c, custom, in) ==
    LET sd == IF in.sd # None THEN in.sd ELSE c.sysDescr
        zy == sd.vendor = "zyxel"
        m2 == IF zy THEN OrElse(in.zy_mfg, sd.mfg) ELSE sd.mfg
        f2 == IF zy THEN OrElse(in.zy_fw, sd.fw) ELSE sd.fw
        mk == sd.vendor = "mikrotik"
        m3 == IF mk THEN Text("MikroTik") ELSE m2
        f3 == IF mk THEN OrElse(in.mk_ver, f2) ELSE f2
    IN IF sd = None THEN c
       ELSE [c EXCEPT !.sysDescr = sd,
                      !.manufacturer = CustomOver(custom, in, "manufacturer", m3),
                      !.firmware = CustomOver(custom, in, "firmware", f3),
                      !.model = IF mk THEN OrElse(in.mk_model, @) ELSE @]

(***************************************************************************)
(* The host: port rename rules and _postprocess_if_names (__init__.py)     *)
(*                                                                         *)
(* A rename rule is a pattern matched as a literal text without regard to  *)
(* case, and the text that replaces its first occurrence. The rule list is *)
(* the one _build_port_rename_rules returns: the user rules with a         *)
(* pattern, with every built-in rule disabled.                             *)
(***************************************************************************)
Rule(pat, rep) == [pat |-> pat, rep |-> rep]

\* the positions at which rx matches in out
Matches(out, rule) ==
    {i \in 1..(Len(out) - Len(rule.pat) + 1) :
        Lower(SubSeq(out, i, i + Len(rule.pat) - 1)) = Lower(rule.pat)}

\* rx.sub(rep, out, count=1)
SubFirst(out, rule) ==
    LET i == SetMin(Matches(out, rule))
    IN SubSeq(out, 1, i - 1) \o rule.rep \o SubSeq(out, i + Len(rule.pat), Len(out))

\* if rx.search(out): out = rx.sub(rep, out, count=1)
ApplyRule(out, rule) == IF Matches(out, rule) # {} THEN SubFirst(out, rule) ELSE out

RECURSIVE ApplyRulesFrom(_, _, _)
ApplyRulesFrom(out, rules, n) ==
    IF n > Len(rules) THEN out ELSE ApplyRulesFrom(ApplyRule(out, rules[n]), rules, n + 1)

_apply_port_rename_all(name, rules) ==
    IF name = <<>> \/ rules = <<>> THEN name ELSE ApplyRulesFrom(name, rules, 1)

HostVirtualTokens ==
    {<<"v", "l", "a", "n">>,
     <<"l", "o", "o", "p", "b", "a", "c", "k">>,
     <<"l", "o">>,
     <<"m", "g", "m", "t">>,
     <<"m", "a", "n", "a", "g", "e", "m", "e", "n", "t">>,
     <<"b", "r", "i", "d", "g", "e">>,
     <<"b", "r">>,
     <<"i", "r", "b">>,
     <<"b", "d", "i">>,
     <<"s", "v", "i">>,
     <<"p", "o", "r", "t", "-", "c", "h", "a", "n", "n", "e", "l">>,
     <<"p", "o", "r", "t", "c", "h", "a", "n", "n", "e", "l">>,
     <<"l", "a", "g">>,
     <<"b", "o", "n", "d">>,
     <<"p", "o">>}

\* int(row.get("if_type") or 0)
HostIfType(row) == IF GetIfType(row).k = "num" THEN GetIfType(row).v ELSE 0

_classify_port_type(row, display_name) ==
    IF HostIfType(row) \in {24, 53, 131, 135, 161} THEN "virtual"
    ELSE IF "bridge_port" \in DOMAIN row THEN "physical"
    ELSE IF \E token \in HostVirtualTokens : Contains(Lower(display_name), token) THEN "virtual"
    ELSE "unknown"

\* row.get("name") or row.get("descr") or ""
NameOrDescr(row) ==
    IF StrOf(row, "name") # <<>> THEN row.name ELSE StrOf(row, "descr")

\* the body of the loop of _postprocess_if_names for one row
PostprocessRow(row, idx, rules) ==
    LET raw == NameOrDescr(row)
        renamed == IF raw # <<>> /\ rules # <<>> THEN _apply_port_rename_all(raw, rules) ELSE raw
        r1 == IF raw # <<>> /\ renamed # raw /\ "name_raw" \notin DOMAIN row
              THEN ("name_raw" :> raw) @@ row ELSE row
        r2 == IF renamed # <<>> THEN ("name" :> renamed) @@ r1 ELSE r1
        display == IF NameOrDescr(r2) # <<>> THEN NameOrDescr(r2) ELSE IfIndexText(idx)
        r3 == ("display_name" :> display) @@ r2
    IN ("port_type" :> _classify_port_type(r3, display)) @@ r3

_postprocess_if_names(tbl, rules) ==
    [idx \in DOMAIN tbl |-> PostprocessRow(tbl[idx], idx, rules)]

(***************************************************************************)
(* SwitchSnmpClient: the calls of the host                                 *)
(***************************************************************************)

\* the option dicts of __init__
Options(bw, bwi, poe, poei, env, envi) ==
    [bw_enable |-> bw, bw_interval |-> bwi, bw_include |-> {}, bw_exclude |-> {},
     poe_enable |-> poe, poe_interval |-> poei,
     env_enable |-> env, env_interval |-> envi,
     custom |-> {},
     rules |-> <<>>]

\* the object after __init__
NewClient ==
    [ifTable |-> <<>>,
     keys |-> {},
     ipIndex |-> <<>>,
     sysDescr |-> None,
     manufacturer |-> None,
     model |-> None,
     firmware |-> None,
     bw_last_poll |-> NoPoll,
     bw_use_hc |-> "none",
     bw_last |-> <<>>,
     bandwidth |-> <<>>,
     poe_last_poll |-> 0,
     env_last_poll |-> 0,
     poe_power_mw |-> <<>>,
     poe_budget_total_w |-> 0,
     poe_power_used_mw |-> 0,
     poe_power_available_mw |-> 0,
     poe_health_status_raw |-> 0,
     env_power_mw |-> <<>>,
     env_power_mw_total |-> 0]

InitClient(optionSet) ==
    /\ phase = "new"
    /\ opts \in optionSet
    /\ clock = 1
    /\ cl = NewClient
    /\ ret = [op |-> "none"]

\* the interface refresh followed by the IPv4 refresh; an exception of the
\* status walks ends the call before the IPv4 refresh
RefreshWith(c, tbl, status, ipv4) ==
    LET st == WalkStatus(tbl, status)
        c1 == [c EXCEPT !.ifTable = st.tbl]
    IN [c |-> IF st.raised THEN c1 ELSE RefreshIpv4(c1, ipv4),
        raised |-> st.raised,
        found |-> IF st.raised THEN <<>> ELSE WalkIpv4(ipv4)]

\* async_initialize: the full interface walk, the status walks, the IPv4 maps
InitializeWith(full, status, ipv4, sys) ==
    /\ phase = "new"
    /\ \E rf \in {RefreshWith(cl, WalkInterfacesFull(full), status, ipv4)} :
        /\ cl' = IF rf.raised THEN rf.c ELSE InitializeSys(rf.c, opts.custom, sys)
        /\ phase' = IF rf.raised THEN "failed" ELSE "ready"
        /\ ret' = [op |-> "initialize", raised |-> rf.raised, found |-> rf.found,
                   custom |-> sys.custom, sys |-> sys]
    /\ UNCHANGED <<opts, clock>>
    /\ UNCHANGED <<loopVars, gmVars, wVars, fnVars>>

\* async_refresh_all: the full interface walk, the status walks, the IPv4 maps
RefreshAllWith(full, status, ipv4) ==
    /\ phase = "ready"
    /\ \E rf \in {RefreshWith(cl, WalkInterfacesFull(full), status, ipv4)} :
        /\ cl' = rf.c
        /\ ret' = [op |-> "refresh_all", raised |-> rf.raised, found |-> rf.found]
    /\ UNCHANGED <<phase, opts, clock>>
    /\ UNCHANGED <<loopVars, gmVars, wVars, fnVars>>

\* the sub-features that are enabled and due in a poll at time now
DueAt(c, o, now) ==
    (IF BwDue(c, o, now) THEN {"bw"} ELSE {})
    \cup (IF PoeDue(c, o, now) THEN {"poe"} ELSE {})
    \cup (IF EnvDue(c, o, now) THEN {"env"} ELSE {})

\* async_poll: refresh_dynamic, then the bandwidth, PoE and environmental
\* parts; an exception that no handler catches ends the call where it is raised
\* host: the caller is the update method of the coordinator
PollThen(in, host) ==
    /\ phase = "ready"
    /\ \E rf \in {RefreshWith(PollSys(cl, opts.custom, in.sys), cl.ifTable,
                             in.status, in.ipv4)} :
       \E r1 \in {[c |-> rf.c,
                   exc |-> IF rf.raised THEN "refresh" ELSE "none",
                   ran |-> {}, threw |-> {}]} :
       \E r2 \in {IF r1.exc = "none" THEN BwStep(r1, opts, in.now, in.bw) ELSE r1} :
       \E r3 \in {IF r2.exc = "none" THEN PoeStep(r2, opts, in.now, in.poe) ELSE r2} :
       \E r4 \in {IF r3.exc = "none" THEN EnvStep(r3, opts, in.now, in.env) ELSE r3} :
        /\ cl' = IF host /\ r4.exc = "none"
                 THEN [r4.c EXCEPT !.ifTable = _postprocess_if_names(@, opts.rules)]
                 ELSE r4.c
        /\ ret' = [op |-> "poll", raised |-> r4.exc # "none", at |-> r4.exc,
                   ran |-> r4.ran, due |-> DueAt(cl, opts, in.now), threw |-> r4.threw,
                   found |-> rf.found, custom |-> in.sys.custom, sys |-> in.sys]
    /\ clock' = in.now
    /\ UNCHANGED <<phase, opts>>
    /\ UNCHANGED <<loopVars, gmVars, wVars, fnVars>>

\* async_poll called by itself
PollWith(in) == PollThen(in, FALSE)

\* _update_method: async_poll, then _postprocess_if_names on the dict it
\* returned, which is the cache of the client
UpdateWith(in) == PollThen(in, TRUE)

\* if ok: self.cache.setdefault("ifTable", {}).setdefault(if_index, {})["alias"] = alias
SetAliasCacheAlways(tbl, idx, alias, ok) == Put(tbl, idx, "alias", alias)
SetAliasCache(tbl, idx, alias, ok) ==
    IF ok THEN Put(tbl, idx, "alias", alias) ELSE tbl

\* set_alias; ok is whether the device accepts the SET
SetAlias ==
    /\ phase = "ready"
    /\ \E idx \in IfIdx, alias \in Aliases, ok \in BOOLEAN :
        /\ cl' = [cl EXCEPT !.ifTable = SetAliasCache(@, idx, alias, ok)]
        /\ ret' = [op |-> "set_alias", result |-> ok, idx |-> idx, alias |-> alias]
    /\ UNCHANGED <<phase, opts, clock>>
    /\ UNCHANGED <<loopVars, gmVars, wVars, fnVars>>

\* set_admin_status; ok is whether the device accepts the SET
SetAdminStatus ==
    /\ phase = "ready"
    /\ \E idx \in IfIdx, value \in {1, 2}, ok \in BOOLEAN :
        ret' = [op |-> "set_admin_status", result |-> ok, idx |-> idx, value |-> value]
    /\ UNCHANGED <<phase, opts, clock, cl>>
    /\ UNCHANGED <<loopVars, gmVars, wVars, fnVars>>

(***************************************************************************)
(* SwitchSnmpClient: devices                                               *)
(***************************************************************************)

\* a device without PoE tables and without the environmental power table
NoPoe == [budget |-> <<>>, used |-> <<>>, health |-> <<>>,
          s_budget |-> None, s_used |-> None, s_health |-> None, ports |-> <<>>]
NoEnv == [env |-> <<>>]

\* status walks of a device that reports up/up for the interfaces of the table
StatusUp(tbl) ==
    [admin |-> [i \in DOMAIN tbl |-> Num(1)], oper |-> [i \in DOMAIN tbl |-> Num(1)]]

\* the octet counters a device answers in one tick: the interfaces of answering
\* report the pair p, the others report nothing
GotOf(p, answering) ==
    [i \in IfIdx |-> IF i \in answering THEN p ELSE [rx |-> None, tx |-> None]]
GotPairs(V) ==
    {[rx |-> a, tx |-> a] : a \in V}
    \cup {[rx |-> Ctr(Big(2, 7)), tx |-> Ctr(MaxU32)], [rx |-> Ctr(MaxU32), tx |-> Ctr(Big(0, 0))],
          [rx |-> None, tx |-> Ctr(Big(0, 0))], [rx |-> Ctr(MaxU32), tx |-> None]}

\* what the probe of ifHCInOctets answers
ProbeVals == {None, Text(NoSuchInstanceText), Ctr(Big(0, 0))}

\* the bandwidth input of a poll at time now: nothing to choose when no
\* tick runs, the probe only while the counter width is undecided, and
\* counters above 2^32 - 1 only from the 64-bit OIDs
BwInputs(now) ==
    IF ~BwDue(cl, opts, now)
    THEN {[probe |-> None, got |-> GotOf([rx |-> None, tx |-> None], {}), now_ts |-> 1]}
    ELSE UNION {
        {[probe |-> pr, got |-> GotOf(p, a), now_ts |-> ts] :
            p \in GotPairs(IF BwProbe(cl, BwSelected(cl.ifTable, opts), pr) = "hc"
                           THEN Vals64 ELSE Vals32),
            a \in {IfIdx} \cup {{i} : i \in IfIdx}, ts \in 1..MaxWall} :
        pr \in (IF cl.bw_use_hc = "none" THEN ProbeVals ELSE {None})}

\* a switch whose interfaces are all present, named and up
BwSwitch ==
    [index |-> IfIdx, descr |-> <<>>, name |-> [i \in IfIdx |-> <<"G", "i", "1", "/", "0", "/", "1">>],
     alias |-> [i \in IfIdx |-> ""], iftype |-> <<>>, bridge |-> {}]
InitializeBw == InitializeWith(BwSwitch, StatusUp(WalkInterfacesFull(BwSwitch)), NoIpv4, NoSys)

PollBw ==
    \E now \in clock..MaxClock :
        \E bw \in BwInputs(now) :
            PollWith([now |-> now, status |-> StatusUp(cl.ifTable),
                      bw |-> bw, poe |-> NoPoe, env |-> NoEnv, ipv4 |-> NoIpv4,
                          sys |-> NoSys])

NextBw == InitializeBw \/ PollBw

\* the rate of one direction in a bandwidth entry
RateOf(b, key) == IF key = "rx" THEN b.rx_bps ELSE b.tx_bps

\* C1: in a bandwidth tick with 32-bit counters, a rate computed from a
\* current counter below the stored one uses current - previous + 2^32, and
\* no delta is negative
WrapDeltaStep ==
    (ret'.op = "poll" /\ "bw" \in ret'.ran) =>
        \A i \in DOMAIN cl'.bandwidth, key \in {"rx", "tx"} :
            (~cl'.bandwidth[i].use_hc /\ RateOf(cl'.bandwidth[i], key) # None) =>
                LET prev == cl.bw_last[i][key].c
                    cur == cl'.bw_last[i][key].c
                    delta == RateOf(cl'.bandwidth[i], key).delta
                IN /\ BigLess(cur, prev) => delta = BigAdd(BigSub(cur, prev), Two32)
                   /\ ~BigLess(cur, prev) => delta = BigSub(cur, prev)
                   /\ ~BigNeg(delta)
WrapDelta == [][WrapDeltaStep]_vars
WrapDeltaWitness ==
    /\ ret.op = "poll" /\ "bw" \in ret.ran
    /\ \E i \in DOMAIN cl.bandwidth :
        /\ ~cl.bandwidth[i].use_hc
        /\ cl.bandwidth[i].rx_octets = Ctr(Big(0, 0))
        /\ cl.bandwidth[i].rx_bps # None
        /\ cl.bandwidth[i].rx_bps.delta = Big(0, 1)

\* C2: in a bandwidth tick with 64-bit counters the delta is exactly
\* current - previous, negative when the counter went down
HcDeltaStep ==
    (ret'.op = "poll" /\ "bw" \in ret'.ran) =>
        \A i \in DOMAIN cl'.bandwidth, key \in {"rx", "tx"} :
            (cl'.bandwidth[i].use_hc /\ RateOf(cl'.bandwidth[i], key) # None) =>
                RateOf(cl'.bandwidth[i], key).delta
                    = BigSub(cl'.bw_last[i][key].c, cl.bw_last[i][key].c)
HcDelta == [][HcDeltaStep]_vars
HcDeltaWitness ==
    /\ ret.op = "poll" /\ "bw" \in ret.ran
    /\ \E i \in DOMAIN cl.bandwidth :
        /\ cl.bandwidth[i].use_hc
        /\ cl.bandwidth[i].tx_octets = Ctr(Big(0, 0))
        /\ cl.bandwidth[i].tx_bps # None
        /\ BigNeg(cl.bandwidth[i].tx_bps.delta)

\* C3: a bandwidth tick reports a rate for a direction of an interface only
\* when a previous reading of that counter is stored and the time since that
\* reading is greater than 0; otherwise the rate is None
RateNeedsHistoryStep ==
    (ret'.op = "poll" /\ "bw" \in ret'.ran) =>
        \A i \in DOMAIN cl'.bandwidth, key \in {"rx", "tx"} :
            LET rate == RateOf(cl'.bandwidth[i], key)
                stored == i \in DOMAIN cl.bw_last /\ cl.bw_last[i][key] # None
            IN /\ rate # None =>
                    /\ stored
                    /\ cl'.bandwidth[i].ts - cl.bw_last[i].ts > 0
                    /\ rate.dt = cl'.bandwidth[i].ts - cl.bw_last[i].ts
               /\ (~stored \/ cl'.bandwidth[i].ts - cl.bw_last[i].ts = 0) => rate = None
RateNeedsHistory == [][RateNeedsHistoryStep]_vars
RateNeedsHistoryWitness ==
    /\ ret.op = "poll" /\ "bw" \in ret.ran
    /\ cl.bw_last_poll = 1 /\ clock = 1
    /\ \E i \in DOMAIN cl.bandwidth :
        /\ cl.bandwidth[i].rx_octets = Ctr(MaxU32)
        /\ cl.bandwidth[i].rx_bps = None
        /\ cl.bandwidth[i].tx_octets = Ctr(Big(0, 0))
        /\ cl.bandwidth[i].tx_bps = None

\* C21: the 64-bit-counter flag is decided in the first executed bandwidth
\* tick and keeps its value in every later poll, and every entry of a tick
\* is read from the counter family the flag names
HcDecidedOnceStep ==
    /\ cl.bw_use_hc # "none" => cl'.bw_use_hc = cl.bw_use_hc
    /\ (ret'.op = "poll" /\ "bw" \in ret'.ran) =>
          /\ cl'.bw_use_hc # "none"
          /\ \A i \in DOMAIN cl'.bandwidth :
                cl'.bandwidth[i].use_hc = (cl'.bw_use_hc = "hc")
HcDecidedOnce == [][HcDecidedOnceStep]_vars
HcDecidedOnceWitness ==
    /\ ret.op = "poll" /\ "bw" \in ret.ran
    /\ cl.bw_use_hc = "hc"
    /\ \E i \in DOMAIN cl.bandwidth :
        /\ cl.bandwidth[i].use_hc
        /\ cl.bandwidth[i].rx_bps # None

\* last.get("rx") is not None / last.get("tx") is not None, with a stored ts
HasSample(c, i, key) ==
    /\ i \in DOMAIN c.bw_last
    /\ c.bw_last[i].ts # 0
    /\ c.bw_last[i][key] # None

\* C22: per interface and per direction, a stored previous reading that a
\* rate can be computed from is never put back to none by a later poll
SampleNeverRegressesStep ==
    \A i \in IfIdx, key \in {"rx", "tx"} :
        HasSample(cl, i, key) => HasSample(cl', i, key)
SampleNeverRegresses == [][SampleNeverRegressesStep]_vars


\* a switch whose names are fixed: interfaces, aliases and status values vary
IfWalks ==
    UNION {[index : {D}, descr : {<<>>}, name : {[i \in D |-> <<"G", "i", "1", "/", "0", "/", "1">>]},
            alias : [D -> Aliases], iftype : {<<>>}, bridge : {{}}] :
           D \in SUBSET IfIdx}
\* status walks over the interfaces D: every row a number, or one row of one
\* of the two walks a text
IfStatusWalks(D) ==
    [admin : [D -> {Num(1), Num(2)}], oper : {[i \in D |-> Num(1)]}]
    \cup {[admin |-> [i \in D |-> IF i = b THEN Text("up") ELSE Num(1)],
           oper |-> [i \in D |-> Num(1)]] : b \in D}
    \cup {[admin |-> [i \in D |-> Num(2)],
           oper |-> [i \in D |-> IF i = b THEN Text("up") ELSE Num(1)]] : b \in D}

InitializeIf ==
    \E full \in IfWalks :
        \E status \in IfStatusWalks(full.index) : InitializeWith(full, status, NoIpv4, NoSys)

PollIf ==
    \E now \in {clock} :
        \E D \in {DOMAIN cl.ifTable, IfIdx} :
            \E status \in IfStatusWalks(D) :
                PollWith([now |-> now, status |-> status,
                          bw |-> CHOOSE b \in BwInputs(now) : TRUE,
                          poe |-> NoPoe, env |-> NoEnv, ipv4 |-> NoIpv4,
                          sys |-> NoSys])

NextIf == InitializeIf \/ PollIf \/ SetAlias \/ SetAdminStatus

\* C7: set_alias leaves the alias in the cache when the SET succeeds; when it
\* fails the result is False and the cache is as it was
\* C29: every record of the interface table has an index field equal to the
\* key it is stored under
IndexIsKey ==
    \A i \in DOMAIN cl.ifTable :
        "index" \in DOMAIN cl.ifTable[i] /\ cl.ifTable[i].index = i

SetAliasUpdatesCacheStep ==
    ret'.op = "set_alias" =>
        IF ret'.result
        THEN /\ ret'.idx \in DOMAIN cl'.ifTable
             /\ cl'.ifTable[ret'.idx].alias = ret'.alias
        ELSE cl' = cl
SetAliasUpdatesCache == [][SetAliasUpdatesCacheStep]_vars
SetAliasUpdatesCacheWitness ==
    /\ ret.op = "set_alias" /\ ret.result /\ ret.alias = "uplink"
    /\ ret.idx \in DOMAIN cl.ifTable
    /\ "alias" \in DOMAIN cl.ifTable[ret.idx]
    /\ cl.ifTable[ret.idx].alias = "uplink"
    /\ \E j \in DOMAIN cl.ifTable :
        j # ret.idx /\ "alias" \in DOMAIN cl.ifTable[j] /\ cl.ifTable[j].alias = ""

\* C8: after a successful set_admin_status the cached administrative status
\* of the interface is the value that was set
SetAdminStatusUpdatesCache ==
    (ret.op = "set_admin_status" /\ ret.result) =>
        /\ ret.idx \in DOMAIN cl.ifTable
        /\ "admin" \in DOMAIN cl.ifTable[ret.idx]
        /\ cl.ifTable[ret.idx].admin = ret.value

\* C9: no exception leaves a poll, whatever non-numeric values the device
\* answers
PollNeverRaises == ret.op = "poll" => ~ret.raised

\* PoE behaviours of a device: tables, scalars, per-port power
PoeDevices ==
    {NoPoe,
     [NoPoe EXCEPT !.budget = <<Num(30)>>, !.used = <<Num(1500)>>, !.health = <<Num(1)>>,
                   !.ports = (1 :> Num(4000))],
     [NoPoe EXCEPT !.budget = <<Text("inf")>>, !.used = <<Num(1500), Num(2)>>],
     [NoPoe EXCEPT !.budget = <<Text("abc")>>, !.health = <<Num(2), Num(7)>>],
     [NoPoe EXCEPT !.used = <<Num(1500)>>, !.ports = (1 :> Text("inf"))],
     [NoPoe EXCEPT !.s_budget = Num(30), !.s_used = Num(40000)],
     [NoPoe EXCEPT !.s_budget = Text("inf")],
     [NoPoe EXCEPT !.s_health = Text("n/a")]}

\* what the walk of the environmental power table answers
EnvDevices ==
    {NoEnv, [env |-> (1 :> Num(5000))], [env |-> (1 :> Text("abc"))],
     [env |-> (1 :> Text("1e999"))]}

InitializeTelemetry == InitializeWith(BwSwitch, StatusUp(WalkInterfacesFull(BwSwitch)), NoIpv4, NoSys)

PollTelemetry ==
    \E now \in clock..MaxClock :
        \E poe \in (IF PoeDue(cl, opts, now) THEN PoeDevices ELSE {NoPoe}) :
            \E env \in (IF EnvDue(cl, opts, now) THEN EnvDevices ELSE {NoEnv}) :
                PollWith([now |-> now, status |-> StatusUp(cl.ifTable),
                          bw |-> CHOOSE b \in BwInputs(now) : TRUE,
                          poe |-> poe, env |-> env, ipv4 |-> NoIpv4,
                          sys |-> NoSys])

NextTelemetry == InitializeTelemetry \/ PollTelemetry

\* C10: when a sub-feature step of a poll raises, the poll still returns and
\* every sub-feature that is enabled and due runs in it
SubFeaturesIsolated ==
    (ret.op = "poll" /\ ret.threw # {}) => (~ret.raised /\ ret.due \subseteq ret.ran)


\* C14: after a poll in which the environmental step ran, the total-power
\* field is in the cache only if a power reading was obtained
UnsupportedMeansAbsent ==
    (ret.op = "poll" /\ ~ret.raised /\ "env" \in ret.ran) =>
        ("env_power_mw_total" \in cl.keys => DOMAIN cl.env_power_mw # {})

\* what the ipAdEntAddr and ipAdEntIfIndex walks answer: the listed addresses
\* and, for each, the interface (one more than the table holds) or a text
Ipv4Walks ==
    UNION {[addrs : {A}, ifindex : [A -> {Num(i) : i \in 1..(NumIfs + 1)} \cup {Text("abc")}]] :
           A \in SUBSET IpAddrs}

InitializeIp ==
    \E ipv4 \in Ipv4Walks :
        InitializeWith(BwSwitch, StatusUp(WalkInterfacesFull(BwSwitch)), ipv4, NoSys)

PollIp ==
    \E ipv4 \in Ipv4Walks :
        PollWith([now |-> clock, status |-> StatusUp(cl.ifTable),
                  bw |-> CHOOSE b \in BwInputs(clock) : TRUE,
                  poe |-> NoPoe, env |-> NoEnv, ipv4 |-> ipv4, sys |-> NoSys])

RefreshAllIp ==
    \E ipv4 \in Ipv4Walks :
        RefreshAllWith(BwSwitch, StatusUp(WalkInterfacesFull(BwSwitch)), ipv4)

NextIp == InitializeIp \/ PollIp \/ RefreshAllIp

\* C13: after a refresh an interface record carries only the IPv4 addresses
\* that the IPv4 walk of that refresh found on that interface
NoStaleIpv4 ==
    (ret.op \in {"initialize", "poll", "refresh_all"} /\ ~ret.raised) =>
        \A i \in DOMAIN cl.ifTable :
            "ipv4" \in DOMAIN cl.ifTable[i] =>
                \A ip \in cl.ifTable[i].ipv4 :
                    ip \in DOMAIN ret.found /\ ret.found[ip] = i

\* the value a device holds at the custom OID of a field
CustomVal(k) ==
    IF k = "manufacturer" THEN Text("MyVendor")
    ELSE IF k = "model" THEN Text("MyModel") ELSE Text("MyFirmware")

\* what a device answers at the configured custom OIDs: for each, nothing or
\* its value, or an empty text at all of them
CustomAnswers ==
    {[k \in CustomKeys |-> IF k \in A THEN CustomVal(k) ELSE None] : A \in SUBSET opts.custom}
    \cup {[k \in CustomKeys |-> IF k \in opts.custom THEN Text("") ELSE None]}

\* the answers of the vendor OIDs that async_initialize or async_poll reads
\* for a sysDescr sd and a model hint
VendorAnswers(sd, hint, cbsRead) ==
    [cbs_rev : IF cbsRead /\ IsCbs(hint, sd) THEN {None, Text("3.1")} ELSE {None},
     zy : IF sd # None /\ sd.vendor = "zyxel" THEN {None, Text("zy")} ELSE {None},
     mk_ver : IF sd # None /\ sd.vendor = "mikrotik" THEN {None, Text("7.2")} ELSE {None},
     mk_model : IF sd # None /\ sd.vendor = "mikrotik" THEN {None, Text("CRS305")} ELSE {None}]

SysInput(sd, hint, v, custom) ==
    [sd |-> sd, hint |-> hint, cbs_rev |-> v.cbs_rev,
     zy_mfg |-> IF v.zy = None THEN None ELSE Text("Zyxel Corp"),
     zy_fw |-> IF v.zy = None THEN None ELSE Text("4.7"),
     mk_ver |-> v.mk_ver, mk_model |-> v.mk_model, custom |-> custom]

InitializeIdentity ==
    \E sd \in SysDescrs \cup {None}, hint \in {None, Text("S1"), Text("CBS350")} :
        \E v \in VendorAnswers(sd, hint, TRUE), custom \in CustomAnswers :
            InitializeWith(BwSwitch, StatusUp(WalkInterfacesFull(BwSwitch)), NoIpv4,
                           SysInput(sd, hint, v, custom))

PollIdentity ==
    \E sd \in SysDescrs \cup {None} :
        \E v \in VendorAnswers(IF sd # None THEN sd ELSE cl.sysDescr, None, FALSE),
           custom \in CustomAnswers :
            PollWith([now |-> clock, status |-> StatusUp(cl.ifTable),
                      bw |-> CHOOSE b \in BwInputs(clock) : TRUE,
                      poe |-> NoPoe, env |-> NoEnv, ipv4 |-> NoIpv4,
                      sys |-> SysInput(sd, None, v, custom)])

NextIdentity == InitializeIdentity \/ PollIdentity

\* a poll against the device of the call before: every identity OID answers
\* what it answered then
PollSameDevice ==
    /\ ret.op \in {"initialize", "poll"}
    /\ PollWith([now |-> clock, status |-> StatusUp(cl.ifTable),
                 bw |-> CHOOSE b \in BwInputs(clock) : TRUE,
                 poe |-> NoPoe, env |-> NoEnv, ipv4 |-> NoIpv4,
                 sys |-> ret.sys])

NextVendor == InitializeIdentity \/ PollSameDevice

\* the cached value of one of the three fields
CachedField(c, k) ==
    IF k = "manufacturer" THEN c.manufacturer ELSE IF k = "model" THEN c.model
    ELSE c.firmware

\* C15: after initialize and after every poll, a field with a configured
\* custom OID at which the device holds a non-empty value equals that value
CustomOidWins ==
    (ret.op \in {"initialize", "poll"} /\ ~ret.raised) =>
        \A k \in opts.custom :
            Truthy(ret.custom[k]) => CachedField(cl, k) = ret.custom[k]

\* C26: a poll against a device that answers as it did during initialize
\* leaves the cached manufacturer, model and firmware as initialize derived
\* them
PollKeepsVendorStep ==
    (ret'.op = "poll" /\ ~ret'.raised) =>
        \A k \in CustomKeys : CachedField(cl', k) = CachedField(cl, k)
PollKeepsVendor == [][PollKeepsVendorStep]_vars

\* the enabled sub-pollers, their position in async_poll, and whether the
\* poll ended in an exception before reaching one
EnabledParts(o) ==
    (IF o.bw_enable THEN {"bw"} ELSE {})
    \cup (IF o.poe_enable THEN {"poe"} ELSE {})
    \cup (IF o.env_enable THEN {"env"} ELSE {})
PartOrder(f) ==
    IF f = "refresh" THEN 0 ELSE IF f = "bw" THEN 1 ELSE IF f = "poe" THEN 2 ELSE 3
RaisedBefore(r, f) == r.raised /\ PartOrder(r.at) < PartOrder(f)

\* C11: in the first poll of a session every enabled sub-poller that the poll
\* reaches executes, whatever its interval and whatever the clock reads
FirstPollRunsAllStep ==
    (ret.op = "initialize" /\ ret'.op = "poll") =>
        \A f \in EnabledParts(opts) : f \in ret'.ran \/ RaisedBefore(ret', f)
LastPollOf(c, f) ==
    IF f = "bw" THEN c.bw_last_poll ELSE IF f = "poe" THEN c.poe_last_poll ELSE c.env_last_poll
IntervalOf(o, f) ==
    IF f = "bw" THEN o.bw_interval ELSE IF f = "poe" THEN Max(1, o.poe_interval)
    ELSE o.env_interval

\* C12: a sub-poller that executed at time t does not execute in a poll before
\* t + its interval and executes in a poll at or after it that reaches its
\* step; the gate reads only its own interval and its own timestamp
ThrottleStep ==
    ret'.op = "poll" =>
        \A f \in EnabledParts(opts) :
            LET t == LastPollOf(cl, f) IN
            t >= 1 =>
                /\ clock' < t + IntervalOf(opts, f) =>
                        (f \notin ret'.ran /\ LastPollOf(cl', f) = t)
                /\ clock' >= t + IntervalOf(opts, f) =>
                        \/ f \in ret'.ran /\ LastPollOf(cl', f) = clock'
                        \/ RaisedBefore(ret', f)
MaxNameLen == 5

\* ifName as a device reports it, ifDescr, and the rule lists of the options
HostNames == {<<"G", "i", "1">>, <<"P", "o", "1">>, <<>>}
HostDescrs == {<<>>, [i \in IfIdx |-> <<"e", "t", "h">>]}
RuleSets ==
    {<<>>,
     <<Rule(<<"G", "i">>, <<"P", "o", "r", "t", " ">>)>>,
     <<Rule(<<"G", "i">>, <<"G", "i", "g">>)>>,
     <<Rule(<<"g", "i">>, <<"T", "e">>), Rule(<<"t", "e">>, <<"G", "i">>)>>}

\* the full walks of a switch: every interface of one type, all or none of
\* them bridge ports
HostWalks ==
    [index : {IfIdx}, descr : HostDescrs, name : [IfIdx -> HostNames],
     alias : {[i \in IfIdx |-> ""]},
     iftype : {<<>>, [i \in IfIdx |-> Num(EthernetCsmacd)], [i \in IfIdx |-> Num(161)]},
     bridge : {{}, IfIdx}]

InitializeHost ==
    \E full \in HostWalks :
        InitializeWith(full, StatusUp(WalkInterfacesFull(full)), NoIpv4, NoSys)

RefreshAllHost ==
    \E full \in HostWalks :
        RefreshAllWith(full, StatusUp(WalkInterfacesFull(full)), NoIpv4)

\* one update of the coordinator
UpdateHost ==
    /\ \A i \in DOMAIN cl.ifTable : Len(StrOf(cl.ifTable[i], "name")) <= MaxNameLen
    /\ UpdateWith([now |-> clock, status |-> StatusUp(cl.ifTable),
                   bw |-> CHOOSE b \in BwInputs(clock) : TRUE,
                   poe |-> NoPoe, env |-> NoEnv, ipv4 |-> NoIpv4, sys |-> NoSys])

NextHost == InitializeHost \/ RefreshAllHost \/ UpdateHost

\* C23: a record with a non-empty display_name keeps it through every later
\* refresh and update, and a record that gets its first display_name gets the
\* name, else the description, else 'ifIndex N'
DisplayNameKeptStep ==
    \A i \in DOMAIN cl'.ifTable :
        IF i \in DOMAIN cl.ifTable /\ StrOf(cl.ifTable[i], "display_name") # <<>>
        THEN cl'.ifTable[i].display_name = cl.ifTable[i].display_name
        ELSE cl'.ifTable[i].display_name
                = (IF StrOf(cl'.ifTable[i], "name") # <<>> THEN cl'.ifTable[i].name
                   ELSE IF StrOf(cl'.ifTable[i], "descr") # <<>> THEN cl'.ifTable[i].descr
                   ELSE IfIndexText(i))
DisplayNameKept == [][DisplayNameKeptStep]_vars

\* C27: from the first coordinator update on, every later update leaves the
\* name and the display_name of every interface as the update before left
\* them, for every rule list
RenameStableStep ==
    (ret.op = "poll" /\ ret'.op = "poll") =>
        \A i \in DOMAIN cl.ifTable :
            /\ i \in DOMAIN cl'.ifTable
            /\ StrOf(cl'.ifTable[i], "name") = StrOf(cl.ifTable[i], "name")
            /\ StrOf(cl'.ifTable[i], "display_name") = StrOf(cl.ifTable[i], "display_name")
RenameStable == [][RenameStableStep]_vars

\* C30: after every coordinator update the port_type of each interface row
\* is what classify_port_type gives for the row's interface type, display
\* name and bridge flag
HostClassifiesAsCore ==
    (ret.op = "poll" /\ ~ret.raised) =>
        \A i \in DOMAIN cl.ifTable :
            cl.ifTable[i].port_type
                = classify_port_type(GetIfType(cl.ifTable[i]),
                                     StrOf(cl.ifTable[i], "display_name"),
                                     cl.ifTable[i].is_bridge_port)

(***************************************************************************)
(* One session on the event loop: async_poll and a mutation (a switch      *)
(* entity's async_turn_on / async_turn_off, or set_alias) run as           *)
(* coroutines; each is suspended at its network awaits and the other may   *)
(* run in between.  Neither takes a lock.  The dict the entities write     *)
(* (coordinator.data) is the dict async_poll returned: the client's cache. *)
(***************************************************************************)

\* the states of the agent: an administrative status and an alias per interface
Agents == [admin : [IfIdx -> {1, 2}], alias : [IfIdx -> Aliases]]

\* the answers of the agent to the walks of async_initialize
AgentFull ==
    [index |-> IfIdx, descr |-> <<>>, name |-> [i \in IfIdx |-> <<"G", "i", "1">>],
     alias |-> agent.alias, iftype |-> <<>>, bridge |-> {}]
AgentStatus ==
    [admin |-> [i \in IfIdx |-> Num(agent.admin[i])], oper |-> [i \in IfIdx |-> Num(1)]]

InitializeRace == InitializeWith(AgentFull, AgentStatus, NoIpv4, NoSys)

\* async_poll up to the first GET-NEXT of the ifAdminStatus walk
PollStart ==
    /\ phase = "ready"
    /\ tasks.poll.pc = "idle"
    /\ tasks' = [tasks EXCEPT !.poll = [pc |-> "admin", out |-> <<>>]]
    /\ cl' = PollSys(cl, opts.custom, NoSys)
    /\ UNCHANGED <<phase, opts, clock, ret, agent>>
    /\ UNCHANGED <<gmVars, wVars, fnVars>>

\* _async_walk(OID_ifAdminStatus): one GET-NEXT answered by the agent with
\* the status the interface has now; the row is appended to out
PollAdminNext ==
    /\ tasks.poll.pc = "admin"
    /\ Len(tasks.poll.out) < NumIfs
    /\ tasks' = [tasks EXCEPT !.poll.out =
                    Append(@, Num(agent.admin[Len(tasks.poll.out) + 1]))]
    /\ UNCHANGED <<clVars, agent>>
    /\ UNCHANGED <<gmVars, wVars, fnVars>>

\* the GET-NEXT that leaves the column ends the walk; the for loop stores the
\* rows of out in the cache, then the ifOperStatus walk is awaited
PollAdminStore ==
    /\ tasks.poll.pc = "admin"
    /\ Len(tasks.poll.out) = NumIfs
    /\ cl' = [cl EXCEPT !.ifTable = WalkIntsInto(@, tasks.poll.out, "admin").tbl]
    /\ tasks' = [tasks EXCEPT !.poll = [pc |-> "oper"]]
    /\ UNCHANGED <<phase, opts, clock, ret, agent>>
    /\ UNCHANGED <<gmVars, wVars, fnVars>>

\* the rest of async_poll: the ifOperStatus rows, the IPv4 walks and the
\* bandwidth, PoE and environment steps
PollFinish ==
    /\ tasks.poll.pc = "oper"
    /\ \E st \in {WalkIntsInto(cl.ifTable, [i \in IfIdx |-> Num(1)], "oper")} :
       \E r1 \in {[c |-> RefreshIpv4([cl EXCEPT !.ifTable = st.tbl], NoIpv4),
                   exc |-> "none", ran |-> {}, threw |-> {}]} :
       \E r2 \in {BwStep(r1, opts, clock, CHOOSE b \in BwInputs(clock) : TRUE)} :
       \E r3 \in {IF r2.exc = "none" THEN PoeStep(r2, opts, clock, NoPoe) ELSE r2} :
       \E r4 \in {IF r3.exc = "none" THEN EnvStep(r3, opts, clock, NoEnv) ELSE r3} :
        /\ cl' = r4.c
        /\ ret' = [op |-> "poll", raised |-> r4.exc # "none", at |-> r4.exc,
                   ran |-> r4.ran, threw |-> r4.threw]
    /\ tasks' = [tasks EXCEPT !.poll = [pc |-> "idle"]]
    /\ UNCHANGED <<phase, opts, clock, agent>>
    /\ UNCHANGED <<gmVars, wVars, fnVars>>

\* the mutations: async_turn_on (1) and async_turn_off (2) of the switch
\* entity of an interface, and set_alias
Mutations ==
    [key : {"admin"}, idx : IfIdx, value : {1, 2}]
    \cup [key : {"alias"}, idx : IfIdx, value : Aliases]

\* the mutation up to its SET request
SetStart ==
    /\ phase = "ready"
    /\ tasks.set.pc \in {"idle", "done"}
    /\ \E m \in Mutations :
        tasks' = [tasks EXCEPT !.set = [pc |-> "sent", m |-> m]]
    /\ UNCHANGED <<clVars, agent>>
    /\ UNCHANGED <<gmVars, wVars, fnVars>>

\* the agent accepts the SET and stores the value, or refuses it
SetApply ==
    /\ tasks.set.pc = "sent"
    /\ \E ok \in BOOLEAN :
        /\ agent' = IF ok
                    THEN [agent EXCEPT ![tasks.set.m.key][tasks.set.m.idx] = tasks.set.m.value]
                    ELSE agent
        /\ tasks' = [tasks EXCEPT !.set = [pc |-> "answered", m |-> tasks.set.m, ok |-> ok]]
    /\ UNCHANGED clVars
    /\ UNCHANGED <<gmVars, wVars, fnVars>>

\* the coroutine resumes with the answer and, when the SET succeeded, stores
\* the value in the cache; polling records whether async_poll is suspended
SetReturn ==
    /\ tasks.set.pc = "answered"
    /\ cl' = IF tasks.set.ok
             THEN [cl EXCEPT !.ifTable = Put(@, tasks.set.m.idx, tasks.set.m.key, tasks.set.m.value)]
             ELSE cl
    /\ ret' = [op |-> IF tasks.set.m.key = "alias" THEN "set_alias" ELSE "set_admin_status",
               result |-> tasks.set.ok, idx |-> tasks.set.m.idx]
    /\ tasks' = [tasks EXCEPT !.set = [pc |-> "done", m |-> tasks.set.m, ok |-> tasks.set.ok,
                                       polling |-> tasks.poll.pc # "idle"]]
    /\ UNCHANGED <<phase, opts, clock, agent>>
    /\ UNCHANGED <<gmVars, wVars, fnVars>>

NextRace ==
    \/ InitializeRace
    \/ PollStart
    \/ PollAdminNext
    \/ PollAdminStore
    \/ PollFinish
    \/ SetStart
    \/ SetApply
    \/ SetReturn

\* C28: when a mutation has succeeded while a poll was suspended and both
\* have completed, the cache holds the value the device accepted
NoLostUpdate ==
    (/\ tasks.set.pc = "done" /\ tasks.set.ok /\ tasks.set.polling
     /\ tasks.poll.pc = "idle") =>
        /\ tasks.set.m.idx \in DOMAIN cl.ifTable
        /\ cl.ifTable[tasks.set.m.idx][tasks.set.m.key] = tasks.set.m.value

(***************************************************************************)
(* Specifications                                                          *)
(***************************************************************************)

\* every machine starts idle, the client is constructed
Init == InitGetMany /\ InitWalk /\ InitFn /\ InitLoop /\ InitClient({Options(FALSE, 1, FALSE, 1, FALSE, 1)})

SpecGetMany == Init /\ [][NextGetMany]_vars

\* the event loop resumes get_many after every request: each request returns
\* (answer, error or timeout)
SpecGetManyFair == SpecGetMany /\ WF_vars(NextGetMany)

SpecWalk == Init /\ [][NextWalk]_vars

\* a session with bandwidth sensors enabled
InitBw == InitGetMany /\ InitWalk /\ InitFn /\ InitLoop /\ InitClient({Options(TRUE, 1, FALSE, 1, FALSE, 1), Options(TRUE, 2, FALSE, 1, FALSE, 1)})

SpecBw == InitBw /\ [][NextBw]_vars

\* a session with every optional part disabled
InitIf == InitGetMany /\ InitWalk /\ InitFn /\ InitLoop /\ InitClient({Options(FALSE, 1, FALSE, 1, FALSE, 1)})

SpecIf == InitIf /\ [][NextIf]_vars

\* sessions with the optional parts enabled in several combinations
InitTelemetry ==
    InitGetMany /\ InitWalk /\ InitFn /\ InitLoop
    /\ InitClient({Options(TRUE, 1, TRUE, 1, TRUE, 1), Options(FALSE, 1, TRUE, 2, TRUE, 1),
                   Options(TRUE, 2, FALSE, 1, TRUE, 2), Options(FALSE, 1, TRUE, 1, FALSE, 1)})

SpecTelemetry == InitTelemetry /\ [][NextTelemetry]_vars

\* a session of refreshes against a device whose addresses change
InitIp == InitGetMany /\ InitWalk /\ InitFn /\ InitLoop /\ InitClient({Options(FALSE, 1, FALSE, 1, FALSE, 1)})

SpecIp == InitIp /\ [][NextIp]_vars

\* sessions with every combination of custom OIDs configured
InitIdentity ==
    InitGetMany /\ InitWalk /\ InitFn /\ InitLoop
    /\ InitClient({[Options(FALSE, 1, FALSE, 1, FALSE, 1) EXCEPT !.custom = K] :
                      K \in SUBSET CustomKeys})

SpecIdentity == InitIdentity /\ [][NextIdentity]_vars

\* PortList values handed to the decoder
InitBitmap ==
    /\ InitGetMany /\ InitWalk /\ InitLoop
    /\ InitClient({Options(FALSE, 1, FALSE, 1, FALSE, 1)})
    /\ fn \in BitmapInputs

SpecBitmap == InitBitmap /\ [][NextBitmap]_vars

InitClassify ==
    /\ InitGetMany
    /\ InitWalk
    /\ InitLoop
    /\ InitClient({Options(FALSE, 1, FALSE, 1, FALSE, 1)})
    /\ fn \in ClassifyInputs

SpecClassify == InitClassify /\ [][NextClassify]_vars

InitResponses ==
    /\ InitGetMany
    /\ InitWalk
    /\ InitLoop
    /\ InitClient({Options(FALSE, 1, FALSE, 1, FALSE, 1)})
    /\ fn \in ResponseInputs

SpecResponses == InitResponses /\ [][NextResponses]_vars

InitHost ==
    /\ InitGetMany
    /\ InitWalk
    /\ InitLoop
    /\ InitFn
    /\ InitClient({[Options(FALSE, 1, FALSE, 1, FALSE, 1) EXCEPT !.rules = R] :
                      R \in RuleSets})

SpecHost == InitHost /\ [][NextHost]_vars

InitMask ==
    /\ InitGetMany
    /\ InitWalk
    /\ InitLoop
    /\ InitClient({Options(FALSE, 1, FALSE, 1, FALSE, 1)})
    /\ fn \in MaskInputs

SpecMask == InitMask /\ [][NextMask]_vars

InitVlan ==
    /\ InitGetMany
    /\ InitWalk
    /\ InitLoop
    /\ InitClient({Options(FALSE, 1, FALSE, 1, FALSE, 1)})
    /\ fn \in VlanInputs

SpecVlan == InitVlan /\ [][NextVlan]_vars

InitVendor ==
    InitGetMany /\ InitWalk /\ InitFn /\ InitLoop
    /\ InitClient({[Options(FALSE, 1, FALSE, 1, FALSE, 1) EXCEPT !.custom = K] :
                      K \in SUBSET CustomKeys})

SpecVendor == InitVendor /\ [][NextVendor]_vars

InitRace ==
    /\ InitGetMany
    /\ InitWalk
    /\ InitFn
    /\ InitClient({Options(FALSE, 1, FALSE, 1, FALSE, 1)})
    /\ tasks = NoTasks
    /\ agent \in Agents

SpecRace == InitRace /\ [][NextRace]_vars

====
